---- MODULE Spec2Model ----
(***************************************************************************)
(* A model of src/dvbsub.js: the MPEG-TS subtitle demultiplexer            *)
(* (TSSubtitleExtractor) and the DVB-SUB decoder with its recognition      *)
(* queue (DVBSubDecoder).  Offsets are 0-based as in the source; a byte    *)
(* sequence is a TLA+ sequence of 0..255.                                  *)
(***************************************************************************)
EXTENDS Integers, Sequences, FiniteSets, TLC

VARIABLES ts, tsIn, psiFed, stream, fedPos, dec, decOp, session, call

tsVars == <<ts, tsIn, psiFed, stream, fedPos>>

decVars == <<dec, decOp, session>>

vars == <<ts, tsIn, psiFed, stream, fedPos, dec, decOp, session, call>>

(***************************************************************************)
(* Bounds of the model.                                                    *)
(***************************************************************************)
\* The PAT and PMT packets fed in one run.
MaxPSI == 2

\* The bytes one PES accumulator may hold.
MaxUnitLen == 5

\* The bitmaps queued for recognition in one run.
MaxQueued == 2

\* The number of bitmaps decode() may render over a run of the decoder.
MaxBitmaps == 1

\* The bytes of a top field, and the width and height of a region, on which
\* the pixel functions are called.
MaxFieldLen == 3

MaxWidth == 2

MaxHeight == 4

\* The workers created in one run.
MaxWorkers == 1

\* The value the error counter may reach.
MaxErrors == 1

(***************************************************************************)
(* JavaScript primitives used by the source.                               *)
(***************************************************************************)

\* `this.pmtPID = null`: no PID (PIDs are 0..8191) equals it.
Null == -1

\* The transport packet size and the sync byte.
PacketSize == 188

SyncByte == 71

\* data[i] where the source guarantees i is in range.
At(s, i) == s[i + 1]

\* data[i] inside a bitwise expression: an out-of-range read is undefined,
\* which the bitwise operators coerce to 0.
Byte(s, i) == IF i >= 0 /\ i < Len(s) THEN s[i + 1] ELSE 0

Min(a, b) == IF a < b THEN a ELSE b

Max(a, b) == IF a > b THEN a ELSE b

\* TypedArray.prototype.slice(a, b) for a, b >= 0: both ends clamped to the length.
Slice(s, a, b) ==
    LET from == Min(Max(a, 0), Len(s))
        to == Min(Max(b, 0), Len(s))
    IN  IF to <= from THEN << >> ELSE SubSeq(s, from + 1, to)

SliceFrom(s, a) == Slice(s, a, Len(s))

RECURSIVE AndNat(_, _)
\* a & b for a, b in 0 .. 2^31 - 1.
AndNat(a, b) ==
    IF a = 0 \/ b = 0 THEN 0
    ELSE (IF a % 2 = 1 /\ b % 2 = 1 THEN 1 ELSE 0) + 2 * AndNat(a \div 2, b \div 2)

RECURSIVE OrNat(_, _)
\* a | b for a, b in 0 .. 2^31 - 1.
OrNat(a, b) ==
    IF a = 0 THEN b
    ELSE IF b = 0 THEN a
    ELSE (IF a % 2 = 1 \/ b % 2 = 1 THEN 1 ELSE 0) + 2 * OrNat(a \div 2, b \div 2)

\* The low 31 bits of a 32-bit signed integer, and the integer with the given
\* low 31 bits and sign bit (two's complement, computed without leaving the
\* 32-bit range).
Low31(x) == IF x < 0 THEN (x + 2147483647) + 1 ELSE x

Int32(low, top) == IF top THEN (low - 2147483647) - 1 ELSE low

\* a | b on 32-bit signed integers.
Or32(a, b) == Int32(OrNat(Low31(a), Low31(b)), a < 0 \/ b < 0)

\* x << k for 0 <= x < 2^31 and 0 <= k <= 31: the result is truncated to 32
\* bits and read as a signed integer (ECMAScript ToInt32).
Shl32(x, k) ==
    IF k = 0 THEN x
    ELSE LET kept == IF k = 1 THEN x ELSE x % (2 ^ (32 - k))
             top == (kept \div (2 ^ (31 - k))) = 1
             rest == kept % (2 ^ (31 - k))
         IN  Int32(rest * (2 ^ k), top)

\* Map.set(k, v) on a map held as a function.
Put(m, k, v) == [j \in (DOMAIN m) \cup {k} |-> IF j = k THEN v ELSE m[j]]

EmptyMap == [j \in {} |-> 0]

(***************************************************************************)
(* TSSubtitleExtractor.  An extractor is a record of the object's fields   *)
(* (subtitlePIDs, pesBuffers, pmtPID) and of three history fields that     *)
(* the source does not have: calls, the onPES/onPMT callbacks made so far; *)
(* handed, the packets given to parsePacket; units, for every PID the      *)
(* (start, payload) pairs given to collectPES since the last one with the  *)
(* start flag set, that one included.                                      *)
(***************************************************************************)

SUBTITLE_TYPES(t) ==
    CASE t = 6 -> "DVB Teletext/Subtitles"
      [] t = 89 -> "DVB Subtitles"
      [] t = 144 -> "PGS Subtitles"
      [] t = 145 -> "IGS Subtitles"
      [] OTHER -> "Unknown Subtitle"

NewExtractor ==
    [subtitlePIDs |-> {}, pesBuffers |-> EmptyMap, pmtPID |-> Null,
     calls |-> << >>, handed |-> << >>, units |-> EmptyMap]

NoStreams == << >>

PESCall(pid, pts, data, src) ==
    [kind |-> "onPES", pid |-> pid, pts |-> pts, data |-> data, src |-> src,
     streams |-> NoStreams]

PMTCall(streams) ==
    [kind |-> "onPMT", pid |-> Null, pts |-> 0, data |-> << >>, src |-> << >>,
     streams |-> streams]

Arrivals(x, pid) == IF pid \in DOMAIN x.units THEN x.units[pid] ELSE << >>

\* A mutant of emitPES: every accumulator is emptied, not only the one
\* delivered.
emitPES_all(x, pid) ==
    LET buffer == x.pesBuffers[pid]
        x1 == IF Len(buffer.data) > 0
              THEN [x EXCEPT !.calls =
                        Append(@, PESCall(pid, buffer.pts, buffer.data, Arrivals(x, pid)))]
              ELSE x
    IN  [x1 EXCEPT !.pesBuffers = [p \in DOMAIN @ |-> [data |-> << >>, pts |-> 0]]]

\* emitPES(pid, buffer)
emitPES(x, pid) ==
    LET buffer == x.pesBuffers[pid]
        x1 == IF Len(buffer.data) > 0
              THEN [x EXCEPT !.calls =
                        Append(@, PESCall(pid, buffer.pts, buffer.data, Arrivals(x, pid)))]
              ELSE x
    IN  [x1 EXCEPT !.pesBuffers[pid] = [data |-> << >>, pts |-> 0]]

\* The 33-bit PTS field as the source decodes it, in 32-bit signed arithmetic.
DecodePTS(payload) ==
    Or32(Or32(Or32(Or32(Shl32(AndNat(Byte(payload, 9), 14), 29),
                        Shl32(Byte(payload, 10), 22)),
                   Shl32(AndNat(Byte(payload, 11), 254), 14)),
              Shl32(Byte(payload, 12), 7)),
         AndNat(Byte(payload, 13), 254) \div 2)

\* The test of the PES start prefix and minimum length.
ValidPESHeader(payload) ==
    Len(payload) > 9 /\ At(payload, 0) = 0 /\ At(payload, 1) = 0 /\ At(payload, 2) = 1

\* A mutant of collectPES: the continuation payload is put in front of the
\* accumulated bytes instead of behind them.
collectPES_prepend(x, pid, payload, start) ==
    LET x1 == IF pid \in DOMAIN x.pesBuffers THEN x
              ELSE [x EXCEPT !.pesBuffers = Put(@, pid, [data |-> << >>, pts |-> 0])]
    IN  IF start # 0
        THEN LET x2 == IF Len(x1.pesBuffers[pid].data) > 0 THEN emitPES(x1, pid) ELSE x1
             IN  IF ValidPESHeader(payload)
                 THEN [x2 EXCEPT !.pesBuffers[pid] =
                         [data |-> SliceFrom(payload, 9 + At(payload, 8)),
                          pts |-> IF AndNat((At(payload, 7) \div 64) % 4, 2) # 0
                                  THEN DecodePTS(payload) ELSE 0]]
                 ELSE x2
        ELSE [x1 EXCEPT !.pesBuffers[pid].data = payload \o @]

\* A mutant of collectPES: the new header is parsed before the previous
\* accumulator is delivered, so the delivered unit carries the new pts.
collectPES_lateflush(x, pid, payload, start) ==
    LET x1 == IF pid \in DOMAIN x.pesBuffers THEN x
              ELSE [x EXCEPT !.pesBuffers = Put(@, pid, [data |-> << >>, pts |-> 0])]
        newpts == IF AndNat((Byte(payload, 7) \div 64) % 4, 2) # 0
                  THEN DecodePTS(payload) ELSE 0
    IN  IF start # 0
        THEN LET x2 == IF Len(x1.pesBuffers[pid].data) > 0
                       THEN emitPES([x1 EXCEPT !.pesBuffers[pid].pts =
                                        IF ValidPESHeader(payload) THEN newpts ELSE @], pid)
                       ELSE x1
             IN  IF ValidPESHeader(payload)
                 THEN [x2 EXCEPT !.pesBuffers[pid] =
                         [data |-> SliceFrom(payload, 9 + At(payload, 8)), pts |-> newpts]]
                 ELSE x2
        ELSE [x1 EXCEPT !.pesBuffers[pid].data = @ \o payload]

\* collectPES(pid, payload, start)
collectPES(x, pid, payload, start) ==
    LET x1 == IF pid \in DOMAIN x.pesBuffers THEN x
              ELSE [x EXCEPT !.pesBuffers = Put(@, pid, [data |-> << >>, pts |-> 0])]
    IN  IF start # 0
        THEN LET x2 == IF Len(x1.pesBuffers[pid].data) > 0 THEN emitPES(x1, pid) ELSE x1
             IN  IF ValidPESHeader(payload)
                 THEN LET ptsFlags == (At(payload, 7) \div 64) % 4
                          headerDataLength == At(payload, 8)
                          pts == IF AndNat(ptsFlags, 2) # 0 THEN DecodePTS(payload) ELSE 0
                      IN  [x2 EXCEPT !.pesBuffers[pid] =
                              [data |-> SliceFrom(payload, 9 + headerDataLength),
                               pts |-> pts]]
                 ELSE x2
        ELSE [x1 EXCEPT !.pesBuffers[pid].data = @ \o payload]

\* History only: the arrival of (start, payload) at collectPES for pid.
NoteArrival(x, pid, payload, start) ==
    LET entry == [start |-> start, payload |-> payload]
    IN  [x EXCEPT !.units =
            Put(@, pid, IF start # 0 THEN <<entry>> ELSE Append(Arrivals(x, pid), entry))]

RECURSIVE PATLoop(_, _, _)
\* The program loop of parsePAT: every entry with a non-zero program number
\* assigns pmtPID, up to the last entry that starts before length - 4.
PATLoop(data, offset, pmtPID) ==
    IF offset < Len(data) - 4
    THEN LET programNumber == At(data, offset) * 256 + At(data, offset + 1)
             pid == (At(data, offset + 2) % 32) * 256 + At(data, offset + 3)
         IN  PATLoop(data, offset + 4, IF programNumber # 0 THEN pid ELSE pmtPID)
    ELSE pmtPID

\* A mutant of parsePAT: a section too short for its header clears pmtPID.
parsePAT_clear(x, data) ==
    IF Len(data) = 0 THEN [x EXCEPT !.pmtPID = Null]
    ELSE LET offset == At(data, 0) + 1
         IN  IF offset + 8 > Len(data) THEN [x EXCEPT !.pmtPID = Null]
             ELSE [x EXCEPT !.pmtPID = PATLoop(data, offset + 8, @)]

\* parsePAT(data).  On an empty payload data[0] + 1 is NaN: both comparisons
\* with it are false and nothing is assigned.
parsePAT(x, data) ==
    IF Len(data) = 0 THEN x
    ELSE LET offset == At(data, 0) + 1
         IN  IF offset + 8 > Len(data) THEN x
             ELSE [x EXCEPT !.pmtPID = PATLoop(data, offset + 8, @)]

RECURSIVE DescLoop(_, _, _, _, _, _)
\* The descriptor loop of one elementary stream: acc is [pids, streams].
DescLoop(data, descOffset, descEnd, elementaryPID, streamType, acc) ==
    IF descOffset < descEnd /\ descOffset < Len(data) - 2
    THEN LET descTag == At(data, descOffset)
             descLen == At(data, descOffset + 1)
             acc1 == IF descTag = 89
                     THEN [pids |-> acc.pids \cup {elementaryPID},
                           streams |-> Append(acc.streams,
                               [pid |-> elementaryPID, type |-> streamType,
                                typeName |-> SUBTITLE_TYPES(streamType)])]
                     ELSE acc
         IN  DescLoop(data, descOffset + 2 + descLen, descEnd, elementaryPID,
                      streamType, acc1)
    ELSE acc

RECURSIVE StreamLoop(_, _, _)
\* The elementary-stream loop of parsePMT.
StreamLoop(data, offset, acc) ==
    IF offset < Len(data) - 5
    THEN LET streamType == At(data, offset)
             elementaryPID == (At(data, offset + 1) % 32) * 256 + At(data, offset + 2)
             esInfoLength == (At(data, offset + 3) % 16) * 256 + At(data, offset + 4)
             acc1 == IF streamType = 6 \/ streamType = 89 \/ streamType >= 144
                     THEN DescLoop(data, offset + 5, offset + 5 + esInfoLength,
                                   elementaryPID, streamType, acc)
                     ELSE acc
         IN  StreamLoop(data, offset + 5 + esInfoLength, acc1)
    ELSE acc

\* parsePMT(data).  On an empty payload the offset is NaN and nothing is read.
parsePMT(x, data) ==
    IF Len(data) = 0 THEN x
    ELSE LET offset == At(data, 0) + 1
         IN  IF offset + 12 > Len(data) THEN x
             ELSE LET programInfoLength ==
                          (At(data, offset + 10) % 16) * 256 + At(data, offset + 11)
                      r == StreamLoop(data, offset + 12 + programInfoLength,
                                      [pids |-> x.subtitlePIDs, streams |-> << >>])
                  IN  [x EXCEPT !.subtitlePIDs = r.pids,
                                !.calls = IF Len(r.streams) > 0
                                          THEN Append(@, PMTCall(r.streams)) ELSE @]

\* A mutant of parsePacket: the payload of every PID that is neither 0 nor
\* pmtPID goes to collectPES.
parsePacket_all(x0, packet) ==
    LET x == [x0 EXCEPT !.handed = Append(@, packet)]
    IN  IF At(packet, 0) # SyncByte THEN x
        ELSE LET pid == (At(packet, 1) % 32) * 256 + At(packet, 2)
                 payloadUnitStart == (At(packet, 1) \div 64) % 2
                 adaptationFieldControl == (At(packet, 3) \div 16) % 4
                 payloadOffset == IF AndNat(adaptationFieldControl, 2) # 0
                                  THEN 5 + At(packet, 4) ELSE 4
             IN  IF AndNat(adaptationFieldControl, 1) = 0 THEN x
                 ELSE LET payload == SliceFrom(packet, payloadOffset)
                      IN  IF pid = 0 THEN parsePAT(x, payload)
                          ELSE IF pid = x.pmtPID THEN parsePMT(x, payload)
                          ELSE NoteArrival(collectPES(x, pid, payload, payloadUnitStart),
                                           pid, payload, payloadUnitStart)

\* parsePacket(packet), after the packet was noted as handed over.
parsePacket(x0, packet) ==
    LET x == [x0 EXCEPT !.handed = Append(@, packet)]
    IN  IF At(packet, 0) # SyncByte THEN x
        ELSE LET pid == (At(packet, 1) % 32) * 256 + At(packet, 2)
                 payloadUnitStart == (At(packet, 1) \div 64) % 2
                 adaptationFieldControl == (At(packet, 3) \div 16) % 4
                 payloadOffset == IF AndNat(adaptationFieldControl, 2) # 0
                                  THEN 5 + At(packet, 4) ELSE 4
             IN  IF AndNat(adaptationFieldControl, 1) = 0 THEN x
                 ELSE LET payload == SliceFrom(packet, payloadOffset)
                      IN  IF pid = 0 THEN parsePAT(x, payload)
                          ELSE IF pid = x.pmtPID THEN parsePMT(x, payload)
                          ELSE IF pid \in x.subtitlePIDs
                               THEN NoteArrival(collectPES(x, pid, payload, payloadUnitStart),
                                                pid, payload, payloadUnitStart)
                               ELSE x

\* The offsets from offset up to the loop bound that hold a sync byte.
SyncOffsets(data, offset) ==
    {i \in offset..(Len(data) - PacketSize - 1) : At(data, i) = SyncByte}

RECURSIVE ParseLoop(_, _, _)
\* The scan loop of parse().  The iterations that skip one byte that is not
\* 0x47 are taken together: the scan resumes at the first sync byte below the
\* loop bound, and ends when there is none.
ParseLoop(x, data, offset) ==
    LET syncs == SyncOffsets(data, offset)
    IN  IF syncs = {} THEN x
        ELSE LET at == CHOOSE i \in syncs : \A j \in syncs : i <= j
             IN  ParseLoop(parsePacket(x, Slice(data, at, at + PacketSize)),
                           data, at + PacketSize)

\* parse(buffer)
parse(x, buffer) == ParseLoop(x, buffer, 0)

(***************************************************************************)
(* DVBSubDecoder.  A decoder is a record of the object's fields (the four  *)
(* maps, the recognition queue and flags, the statistics, the options) and *)
(* of: recogs, the recognize() calls awaited by a suspended drain loop of  *)
(* processOCRQueue; inits and destroys, the number of createWorker() and   *)
(* terminate() calls awaited by initTesseract() and destroy(); thrown, an  *)
(* exception on its way to the catch of decode(); and three history fields *)
(* the source does not have: events, the callbacks of the last operation;  *)
(* ocrLog, the recognition events since construction; nQueued, the number  *)
(* of bitmaps ever queued (a queued item carries its number as seq);       *)
(* nWorkers, the number of workers ever created (a worker is its number);  *)
(* dropped, the numbers of the items that were in the queue when reset()   *)
(* replaced it; failed, the numbers of the items whose recognition threw.  *)
(***************************************************************************)

\* The fixed canvas of renderPage.
CanvasWidth == 720

CanvasHeight == 576

\* The number of entries of a stored CLUT.
ClutSize == 256

\* The default subtitle duration in seconds, and the clock of pts.
SubtitleDuration == 5

ClockRate == 90000

\* An undefined byte read outside a bitwise expression, and every number
\* computed from it.
NaN == -1

Color(r, g, b, a) == [r |-> r, g |-> g, b |-> b, a |-> a]

defaultClut ==
    <<Color(0, 0, 0, 0), Color(255, 255, 255, 255), Color(0, 0, 0, 255),
      Color(128, 128, 128, 255)>>

NewDecoder ==
    [pages |-> EmptyMap, regions |-> EmptyMap, cluts |-> EmptyMap, objects |-> EmptyMap,
     ocrQueue |-> << >>, processing |-> FALSE,
     tesseractWorker |-> Null, tesseractReady |-> FALSE, tesseractLoading |-> FALSE,
     stats |-> [bitmapsDecoded |-> 0, ocrProcessed |-> 0, errors |-> 0],
     ocrEnabled |-> TRUE, displayMode |-> "ocr",
     recogs |-> {}, inits |-> 0, destroys |-> 0, thrown |-> FALSE,
     events |-> << >>, ocrLog |-> << >>, nQueued |-> 0, nWorkers |-> 0,
     dropped |-> {}, failed |-> {}]

NoPixels == [q \in {} |-> Color(0, 0, 0, 0)]

\* A callback: kind is onBitmap, onOCRResult, onSubtitle or onError; time is
\* pts / ClockRate, kept as the pts it is computed from.
Event(kind, pts, seq, text) ==
    [kind |-> kind, pts |-> pts, seq |-> seq, text |-> text,
     width |-> 0, height |-> 0, pixels |-> NoPixels, endPts |-> 0, source |-> ""]

BitmapEvent(pts, trimmed) ==
    [kind |-> "onBitmap", pts |-> pts, seq |-> 0, text |-> "",
     width |-> trimmed.width, height |-> trimmed.height, pixels |-> trimmed.pixels,
     endPts |-> 0, source |-> ""]

\* The onSubtitle event of an item: startTime is the item's time, held as
\* its pts; endTime is startTime + 5, held as endPts in ticks of the clock.
SubtitleEvent(pts, seq, text) ==
    [Event("onSubtitle", pts, seq, text) EXCEPT
        !.endPts = pts + SubtitleDuration * ClockRate, !.source = "dvb-ocr"]

\* data[i] outside a bitwise expression.
Raw(s, i) == IF i >= 0 /\ i < Len(s) THEN s[i + 1] ELSE NaN

\* parsePageComposition: the region placements.
RECURSIVE PageRegions(_, _, _)
PageRegions(data, offset, regions) ==
    IF offset < Len(data) - 5
    THEN PageRegions(data, offset + 6,
            Append(regions, [id |-> At(data, offset),
                             x |-> At(data, offset + 2) * 256 + At(data, offset + 3),
                             y |-> At(data, offset + 4) * 256 + At(data, offset + 5)]))
    ELSE regions

\* A mutant of parsePageComposition: the regions of the page before are
\* dropped with it.
parsePageComposition_evict(d, pageId, data, pts) ==
    IF Len(data) < 2 THEN d
    ELSE [d EXCEPT !.regions = EmptyMap, !.pages =
            Put(@, pageId, [id |-> pageId, timeout |-> At(data, 0),
                            state |-> (At(data, 1) \div 4) % 4, pts |-> pts,
                            regions |-> PageRegions(data, 2, << >>)])]

\* parsePageComposition(pageId, data, pts)
parsePageComposition(d, pageId, data, pts) ==
    IF Len(data) < 2 THEN d
    ELSE [d EXCEPT !.pages =
            Put(@, pageId, [id |-> pageId, timeout |-> At(data, 0),
                            state |-> (At(data, 1) \div 4) % 4, pts |-> pts,
                            regions |-> PageRegions(data, 2, << >>)])]

\* parseRegionComposition: the object placements.
RECURSIVE RegionObjects(_, _, _)
RegionObjects(data, offset, objects) ==
    IF offset < Len(data) - 5
    THEN LET objectType == (At(data, offset + 2) \div 64) % 4
             entry == [id |-> At(data, offset) * 256 + At(data, offset + 1),
                       type |-> objectType,
                       x |-> (At(data, offset + 2) % 16) * 256 + At(data, offset + 3),
                       y |-> (At(data, offset + 4) % 16) * 256 + At(data, offset + 5)]
         IN  RegionObjects(data, offset + 6 + (IF objectType \in {1, 2} THEN 2 ELSE 0),
                           Append(objects, entry))
    ELSE objects

\* parseRegionComposition(pageId, data)
parseRegionComposition(d, pageId, data) ==
    IF Len(data) < 10 THEN d
    ELSE [d EXCEPT !.regions =
            Put(@, At(data, 0),
                [id |-> At(data, 0),
                 width |-> At(data, 2) * 256 + At(data, 3),
                 height |-> At(data, 4) * 256 + At(data, 5),
                 depth |-> (At(data, 6) \div 4) % 8,
                 clutId |-> At(data, 7),
                 bgPixel |-> At(data, 9),
                 objects |-> RegionObjects(data, 10, << >>)])]

\* Math.round(Math.max(0, Math.min(255, n / scale))) for an integer n.
ClampRound(n, scale) ==
    LET c == Max(0, Min(255 * scale, n)) IN (2 * c + scale) \div (2 * scale)

\* The YCrCb to RGB conversion of parseCLUTDefinition; NaN in, NaN out.
ToRGBA(y, cr, cb, t) ==
    LET nan == y = NaN \/ cr = NaN \/ cb = NaN
    IN  [r |-> IF y = NaN \/ cr = NaN THEN NaN
               ELSE ClampRound(1000 * y + 1402 * (cr - 128), 1000),
         g |-> IF nan THEN NaN
               ELSE ClampRound(1000000 * y - 344136 * (cb - 128) - 714136 * (cr - 128),
                               1000000),
         b |-> IF y = NaN \/ cb = NaN THEN NaN
               ELSE ClampRound(1000 * y + 1772 * (cb - 128), 1000),
         a |-> IF t = NaN THEN NaN ELSE 255 - t]

RECURSIVE CLUTEntries(_, _, _)
\* parseCLUTDefinition: the entry loop.
CLUTEntries(data, offset, clut) ==
    IF offset < Len(data)
    THEN LET clutEntryId == At(data, offset)
             flags == Byte(data, offset + 1)
             fullRange == flags % 2
             ycrCb == Byte(data, offset + 2) * 256 + Byte(data, offset + 3)
             rgba == IF fullRange = 1
                     THEN ToRGBA(Raw(data, offset + 2), Raw(data, offset + 3),
                                 Raw(data, offset + 4), Raw(data, offset + 5))
                     ELSE ToRGBA((ycrCb \div 1024) % 64, (ycrCb \div 64) % 16,
                                 (ycrCb \div 4) % 16, ycrCb % 4)
         IN  CLUTEntries(data, offset + 2 + (IF fullRange = 1 THEN 4 ELSE 2),
                         [clut EXCEPT ![clutEntryId + 1] = rgba])
    ELSE clut

\* A mutant of parseCLUTDefinition: the entries are written into the table
\* stored for the id, when there is one.
parseCLUTDefinition_merge(d, pageId, data) ==
    IF Len(data) < 2 THEN d
    ELSE LET fresh == [i \in 1..ClutSize |->
                          IF i <= Len(defaultClut) THEN defaultClut[i]
                          ELSE Color(0, 0, 0, 0)]
             table == IF At(data, 0) \in DOMAIN d.cluts THEN d.cluts[At(data, 0)] ELSE fresh
         IN  [d EXCEPT !.cluts = Put(@, At(data, 0), CLUTEntries(data, 2, table))]

\* parseCLUTDefinition(pageId, data)
parseCLUTDefinition(d, pageId, data) ==
    IF Len(data) < 2 THEN d
    ELSE LET fresh == [i \in 1..ClutSize |->
                          IF i <= Len(defaultClut) THEN defaultClut[i]
                          ELSE Color(0, 0, 0, 0)]
         IN  [d EXCEPT !.cluts = Put(@, At(data, 0), CLUTEntries(data, 2, fresh))]

\* A mutant of parseObjectData: an object of a page that has no composition
\* is not stored.
parseObjectData_paged(d, pageId, data) ==
    IF Len(data) < 3 \/ pageId \notin DOMAIN d.pages THEN d
    ELSE LET objectId == At(data, 0) * 256 + At(data, 1)
             codingMethod == (At(data, 2) \div 4) % 4
             topFieldLength == Byte(data, 3) * 256 + Byte(data, 4)
             bottomFieldLength == Byte(data, 5) * 256 + Byte(data, 6)
         IN  [d EXCEPT !.objects =
                Put(@, objectId,
                    [id |-> objectId, codingMethod |-> codingMethod,
                     pixelCoded |-> codingMethod = 0,
                     topFieldData |->
                        IF codingMethod = 0 THEN Slice(data, 7, 7 + topFieldLength)
                        ELSE << >>,
                     bottomFieldData |->
                        IF codingMethod = 0
                        THEN Slice(data, 7 + topFieldLength,
                                   7 + topFieldLength + bottomFieldLength)
                        ELSE << >>])]

\* A mutant of parseObjectData: the fields are sliced whatever the coding
\* method.
parseObjectData_slices(d, pageId, data) ==
    IF Len(data) < 3 THEN d
    ELSE LET objectId == At(data, 0) * 256 + At(data, 1)
             codingMethod == (At(data, 2) \div 4) % 4
             topFieldLength == Byte(data, 3) * 256 + Byte(data, 4)
             bottomFieldLength == Byte(data, 5) * 256 + Byte(data, 6)
         IN  [d EXCEPT !.objects =
                Put(@, objectId,
                    [id |-> objectId, codingMethod |-> codingMethod,
                     pixelCoded |-> TRUE,
                     topFieldData |-> Slice(data, 7, 7 + topFieldLength),
                     bottomFieldData |->
                        Slice(data, 7 + topFieldLength,
                              7 + topFieldLength + bottomFieldLength)])]

\* parseObjectData(pageId, data).  pixelCoded tells whether topFieldData and
\* bottomFieldData are byte arrays (possibly empty) or null.
parseObjectData(d, pageId, data) ==
    IF Len(data) < 3 THEN d
    ELSE LET objectId == At(data, 0) * 256 + At(data, 1)
             codingMethod == (At(data, 2) \div 4) % 4
             topFieldLength == Byte(data, 3) * 256 + Byte(data, 4)
             bottomFieldLength == Byte(data, 5) * 256 + Byte(data, 6)
         IN  [d EXCEPT !.objects =
                Put(@, objectId,
                    [id |-> objectId, codingMethod |-> codingMethod,
                     pixelCoded |-> codingMethod = 0,
                     topFieldData |->
                        IF codingMethod = 0 THEN Slice(data, 7, 7 + topFieldLength)
                        ELSE << >>,
                     bottomFieldData |->
                        IF codingMethod = 0
                        THEN Slice(data, 7 + topFieldLength,
                                   7 + topFieldLength + bottomFieldLength)
                        ELSE << >>])]

\* A mutant of ClutAt: an index beyond the table wraps around.
ClutAt_wrap(clut, i, fallback) == clut[(i % Len(clut)) + 1]

\* clut[i] || fallback
ClutAt(clut, i, fallback) == IF i < Len(clut) THEN clut[i + 1] ELSE fallback

RECURSIVE FieldLoop(_, _, _, _, _, _, _, _)
\* A mutant of FieldLoop: a byte 0x00 moves to the next row of the buffer.
FieldLoop_nextrow(data, pixels, width, height, clut, offset, x, y) ==
    IF offset < Len(data) /\ y < height
    THEN LET byte == At(data, offset)
         IN  IF byte = 0
             THEN FieldLoop(data, pixels, width, height, clut, offset + 1, 0, y + 1)
             ELSE FieldLoop(data,
                            IF x < width /\ y < height
                            THEN [pixels EXCEPT ![y * width + x] =
                                     ClutAt(clut, byte, clut[1])]
                            ELSE pixels,
                            width, height, clut, offset + 1, x + 1, y)
    ELSE pixels

\* decodeField: the loop over the bytes of one field.
FieldLoop(data, pixels, width, height, clut, offset, x, y) ==
    IF offset < Len(data) /\ y < height
    THEN LET byte == At(data, offset)
         IN  IF byte = 0
             THEN FieldLoop(data, pixels, width, height, clut, offset + 1, 0, y + 2)
             ELSE FieldLoop(data,
                            IF x < width /\ y < height
                            THEN [pixels EXCEPT ![y * width + x] =
                                     ClutAt(clut, byte, clut[1])]
                            ELSE pixels,
                            width, height, clut, offset + 1, x + 1, y)
    ELSE pixels

\* decodeField(data, pixels, width, height, fieldOffset, depth, clut)
decodeField(data, pixels, width, height, fieldOffset, clut) ==
    FieldLoop(data, pixels, width, height, clut, 0, 0, fieldOffset)

\* A mutant of decodePixelData: an empty bottom field leaves the odd rows.
decodePixelData_nomirror(object, region, clut) ==
    LET width == region.width
        height == region.height
        bg == ClutAt(clut, region.bgPixel, Color(0, 0, 0, 0))
        blank == [i \in 0..(width * height - 1) |-> bg]
        top == decodeField(object.topFieldData, blank, width, height, 0, clut)
    IN  IF Len(object.bottomFieldData) > 0
        THEN decodeField(object.bottomFieldData, top, width, height, 1, clut)
        ELSE top

\* decodePixelData(object, region, clut), for an object with topFieldData.
decodePixelData(object, region, clut) ==
    LET width == region.width
        height == region.height
        bg == ClutAt(clut, region.bgPixel, Color(0, 0, 0, 0))
        blank == [i \in 0..(width * height - 1) |-> bg]
        top == decodeField(object.topFieldData, blank, width, height, 0, clut)
    IN  IF Len(object.bottomFieldData) > 0
        THEN decodeField(object.bottomFieldData, top, width, height, 1, clut)
        ELSE decodeField(object.topFieldData, top, width, height, 1, clut)

\* A colour component stored in ImageData (a Uint8ClampedArray): NaN is 0.
Stored(v) == IF v = NaN THEN 0 ELSE v

\* Source-over compositing of one pixel, for an opaque or transparent source
\* exactly, for a translucent one by the canvas formula on 8-bit values.
Blend(src, dst) ==
    LET sa == Stored(src.a)
        ra == sa + (dst.a * (255 - sa)) \div 255
        mix(s, t) == (Stored(s) * sa + (t * dst.a * (255 - sa)) \div 255) \div Max(ra, 1)
    IN  IF sa = 0 THEN dst
        ELSE IF sa = 255 \/ dst.a = 0
             THEN Color(Stored(src.r), Stored(src.g), Stored(src.b), sa)
        ELSE Color(mix(src.r, dst.r), mix(src.g, dst.g), mix(src.b, dst.b), ra)

\* putImageData into a width x height canvas and drawImage of it at (x0, y0):
\* a canvas is the map of its pixels with alpha > 0, keyed by <<x, y>>.
DrawImage(canvas, pixels, width, height, x0, y0) ==
    LET drawn == {<<x0 + (i % width), y0 + (i \div width)>> :
                    i \in {j \in 0..(width * height - 1) :
                              /\ Stored(pixels[j].a) > 0
                              /\ x0 + (j % width) < CanvasWidth
                              /\ y0 + (j \div width) < CanvasHeight}}
        at(q) == pixels[(q[2] - y0) * width + (q[1] - x0)]
    IN  [q \in (DOMAIN canvas) \cup drawn |->
            IF q \in drawn
            THEN Blend(at(q), IF q \in DOMAIN canvas THEN canvas[q] ELSE Color(0, 0, 0, 0))
            ELSE canvas[q]]

SetMin(S) == CHOOSE v \in S : \A w \in S : v <= w

SetMax(S) == CHOOSE v \in S : \A w \in S : v >= w

\* trimCanvas(canvas): the untrimmed canvas comes back when the pixels with
\* alpha > 0 span no more than one column or one row (or there are none).
trimCanvas(canvas) ==
    LET xs == {q[1] : q \in DOMAIN canvas}
        ys == {q[2] : q \in DOMAIN canvas}
        minX == IF xs = {} THEN CanvasWidth ELSE SetMin(xs)
        minY == IF ys = {} THEN CanvasHeight ELSE SetMin(ys)
        maxX == IF xs = {} THEN 0 ELSE SetMax(xs)
        maxY == IF ys = {} THEN 0 ELSE SetMax(ys)
    IN  IF maxX <= minX \/ maxY <= minY
        THEN [width |-> CanvasWidth, height |-> CanvasHeight, pixels |-> canvas,
              x |-> 0, y |-> 0]
        ELSE [width |-> maxX - minX + 1, height |-> maxY - minY + 1,
              pixels |-> [q \in {<<p[1] - minX, p[2] - minY>> : p \in DOMAIN canvas} |->
                            canvas[<<q[1] + minX, q[2] + minY>>]],
              x |-> minX, y |-> minY]

RECURSIVE DrainLoop(_)
\* processOCRQueue from the top of its while loop up to the next await (a
\* recognize() call joins recogs) or to the end of the loop.  With no
\* worker, tesseractWorker.recognize throws a TypeError, which the catch
\* counts.
DrainLoop(d) ==
    IF Len(d.ocrQueue) > 0
    THEN LET item == Head(d.ocrQueue)
             d1 == [d EXCEPT !.ocrQueue = Tail(@)]
         IN  IF d1.tesseractWorker = Null
             THEN DrainLoop([d1 EXCEPT !.stats.errors = @ + 1,
                                !.failed = @ \cup {item.seq},
                                !.events = Append(@, Event("onError", item.pts, item.seq,
                                                           "OCR error"))])
             ELSE [d1 EXCEPT !.recogs =
                      @ \cup {[seq |-> item.seq, pts |-> item.pts,
                               worker |-> d1.tesseractWorker]}]
    ELSE [d EXCEPT !.processing = FALSE]

\* A mutant of processOCRQueue: the processing flag is not tested, so a
\* second drain loop can start while one awaits.
processOCRQueue_noflag(d) ==
    IF ~d.tesseractReady \/ Len(d.ocrQueue) = 0 THEN d
    ELSE DrainLoop([d EXCEPT !.processing = TRUE])

\* processOCRQueue(), up to its first await.
processOCRQueue(d) ==
    IF d.processing \/ ~d.tesseractReady \/ Len(d.ocrQueue) = 0 THEN d
    ELSE DrainLoop([d EXCEPT !.processing = TRUE])

\* queueOCR(canvas, pts)
queueOCR(d, canvas, pts) ==
    processOCRQueue([d EXCEPT !.nQueued = @ + 1,
                              !.ocrQueue = Append(@, [seq |-> d.nQueued + 1, pts |-> pts])])

NoCanvas == [canvas |-> NoPixels, hasContent |-> FALSE, thrown |-> FALSE]

RECURSIVE RenderObjects(_, _, _, _, _, _)
\* renderPage: the loop over the objects of one region.  createImageData
\* throws when the region has no width or no height.
RenderObjects(d, pageRegion, region, clut, i, acc) ==
    IF acc.thrown \/ i > Len(region.objects) THEN acc
    ELSE LET regObject == region.objects[i]
         IN  IF regObject.id \notin DOMAIN d.objects
                \/ ~d.objects[regObject.id].pixelCoded
             THEN RenderObjects(d, pageRegion, region, clut, i + 1, acc)
             ELSE IF region.width = 0 \/ region.height = 0
             THEN [acc EXCEPT !.hasContent = TRUE, !.thrown = TRUE]
             ELSE RenderObjects(d, pageRegion, region, clut, i + 1,
                    [canvas |-> DrawImage(acc.canvas,
                                    decodePixelData(d.objects[regObject.id], region, clut),
                                    region.width, region.height,
                                    pageRegion.x + regObject.x, pageRegion.y + regObject.y),
                     hasContent |-> TRUE, thrown |-> FALSE])

RECURSIVE RenderRegions(_, _, _, _)
\* renderPage: the loop over the regions of the page.
RenderRegions(d, page, i, acc) ==
    IF acc.thrown \/ i > Len(page.regions) THEN acc
    ELSE LET pageRegion == page.regions[i]
         IN  IF pageRegion.id \notin DOMAIN d.regions
             THEN RenderRegions(d, page, i + 1, acc)
             ELSE LET region == d.regions[pageRegion.id]
                      clut == IF region.clutId \in DOMAIN d.cluts
                              THEN d.cluts[region.clutId] ELSE defaultClut
                  IN  RenderRegions(d, page, i + 1,
                                    RenderObjects(d, pageRegion, region, clut, 1, acc))

\* A mutant of renderPage: the bitmap carries the pts kept with the page.
renderPage_pagepts(d, pageId, pts) ==
    IF pageId \notin DOMAIN d.pages THEN d
    ELSE IF Len(d.pages[pageId].regions) = 0 THEN d
    ELSE LET r == RenderRegions(d, d.pages[pageId], 1, NoCanvas)
             pagePts == d.pages[pageId].pts
         IN  IF r.thrown THEN [d EXCEPT !.thrown = TRUE]
             ELSE IF ~r.hasContent THEN d
             ELSE LET trimmed == trimCanvas(r.canvas)
                      d1 == [d EXCEPT !.stats.bitmapsDecoded = @ + 1,
                                      !.events = Append(@, BitmapEvent(pagePts, trimmed))]
                  IN  IF d1.ocrEnabled /\ d1.displayMode \in {"ocr", "both"}
                      THEN queueOCR(d1, trimmed, pagePts)
                      ELSE d1

\* renderPage(pageId, pts)
renderPage(d, pageId, pts) ==
    IF pageId \notin DOMAIN d.pages THEN d
    ELSE IF Len(d.pages[pageId].regions) = 0 THEN d
    ELSE LET r == RenderRegions(d, d.pages[pageId], 1, NoCanvas)
         IN  IF r.thrown THEN [d EXCEPT !.thrown = TRUE]
             ELSE IF ~r.hasContent THEN d
             ELSE LET trimmed == trimCanvas(r.canvas)
                      d1 == [d EXCEPT !.stats.bitmapsDecoded = @ + 1,
                                      !.events = Append(@, BitmapEvent(pts, trimmed))]
                  IN  IF d1.ocrEnabled /\ d1.displayMode \in {"ocr", "both"}
                      THEN queueOCR(d1, trimmed, pts)
                      ELSE d1

\* The switch of decode() on the segment type.
Dispatch(d, segmentType, pageId, segmentData, pts) ==
    CASE segmentType = 16 -> parsePageComposition(d, pageId, segmentData, pts)
      [] segmentType = 17 -> parseRegionComposition(d, pageId, segmentData)
      [] segmentType = 18 -> parseCLUTDefinition(d, pageId, segmentData)
      [] segmentType = 19 -> parseObjectData(d, pageId, segmentData)
      [] segmentType = 20 -> d
      [] segmentType = 128 -> renderPage(d, pageId, pts)
      [] OTHER -> d

RECURSIVE SegmentLoop(_, _, _, _)
\* A mutant of SegmentLoop: a segment longer than the rest of the payload is
\* not the end of the loop, the scan for a sync byte goes on in its body.
SegmentLoop_resync(d, data, pts, offset) ==
    IF d.thrown \/ ~(offset < Len(data) - 6) THEN d
    ELSE IF At(data, offset) # 15 THEN SegmentLoop(d, data, pts, offset + 1)
    ELSE LET segmentType == At(data, offset + 1)
             pageId == At(data, offset + 2) * 256 + At(data, offset + 3)
             segmentLength == At(data, offset + 4) * 256 + At(data, offset + 5)
             body == offset + 6
         IN  IF body + segmentLength > Len(data) THEN SegmentLoop(d, data, pts, body)
             ELSE SegmentLoop(Dispatch(d, segmentType, pageId,
                                       Slice(data, body, body + segmentLength), pts),
                              data, pts, body + segmentLength)

\* A mutant of SegmentLoop: the offset moves past the segments of the switch
\* only, the body of any other segment is scanned for a sync byte.
SegmentLoop_scan(d, data, pts, offset) ==
    IF d.thrown \/ ~(offset < Len(data) - 6) THEN d
    ELSE IF At(data, offset) # 15 THEN SegmentLoop(d, data, pts, offset + 1)
    ELSE LET segmentType == At(data, offset + 1)
             pageId == At(data, offset + 2) * 256 + At(data, offset + 3)
             segmentLength == At(data, offset + 4) * 256 + At(data, offset + 5)
             body == offset + 6
         IN  IF body + segmentLength > Len(data) THEN d
             ELSE IF segmentType \notin {16, 17, 18, 19, 20, 128}
             THEN SegmentLoop(d, data, pts, body)
             ELSE SegmentLoop(Dispatch(d, segmentType, pageId,
                                       Slice(data, body, body + segmentLength), pts),
                              data, pts, body + segmentLength)

\* The while loop of decode().
SegmentLoop(d, data, pts, offset) ==
    IF d.thrown \/ ~(offset < Len(data) - 6) THEN d
    ELSE IF At(data, offset) # 15 THEN SegmentLoop(d, data, pts, offset + 1)
    ELSE LET segmentType == At(data, offset + 1)
             pageId == At(data, offset + 2) * 256 + At(data, offset + 3)
             segmentLength == At(data, offset + 4) * 256 + At(data, offset + 5)
             body == offset + 6
         IN  IF body + segmentLength > Len(data) THEN d
             ELSE SegmentLoop(Dispatch(d, segmentType, pageId,
                                       Slice(data, body, body + segmentLength), pts),
                              data, pts, body + segmentLength)

\* A mutant of decode: the exception is reported but stays pending.
decode_stuck(d, data, pts) ==
    IF Len(data) < 2 THEN d
    ELSE LET r == SegmentLoop(d, data, pts, IF At(data, 0) \in {32, 0} THEN 2 ELSE 0)
         IN  IF r.thrown
             THEN [r EXCEPT !.stats.errors = @ + 1,
                            !.events = Append(@, Event("onError", pts, 0, "DVB-SUB decode error"))]
             ELSE r

\* decode(data, pts)
decode(d, data, pts) ==
    IF Len(data) < 2 THEN d
    ELSE LET r == SegmentLoop(d, data, pts, IF At(data, 0) \in {32, 0} THEN 2 ELSE 0)
         IN  IF r.thrown
             THEN [r EXCEPT !.thrown = FALSE, !.stats.errors = @ + 1,
                            !.events = Append(@, Event("onError", pts, 0, "DVB-SUB decode error"))]
             ELSE r

\* The numbers of the items of a queue.
Seqs(queue) == {queue[i].seq : i \in 1..Len(queue)}

\* A mutant of reset: the page map is not cleared.
reset_keepPages(d) ==
    [d EXCEPT !.regions = EmptyMap, !.cluts = EmptyMap, !.objects = EmptyMap,
              !.ocrQueue = << >>, !.dropped = @ \cup Seqs(d.ocrQueue),
              !.stats = [bitmapsDecoded |-> 0, ocrProcessed |-> 0, errors |-> 0]]

\* A mutant of reset: the recognition queue is not replaced.
reset_keepQueue(d) ==
    [d EXCEPT !.pages = EmptyMap, !.regions = EmptyMap, !.cluts = EmptyMap,
              !.objects = EmptyMap, !.dropped = @ \cup Seqs(d.ocrQueue),
              !.stats = [bitmapsDecoded |-> 0, ocrProcessed |-> 0, errors |-> 0]]

\* reset()
reset(d) ==
    [d EXCEPT !.pages = EmptyMap, !.regions = EmptyMap, !.cluts = EmptyMap,
              !.objects = EmptyMap, !.ocrQueue = << >>,
              !.dropped = @ \cup Seqs(d.ocrQueue),
              !.stats = [bitmapsDecoded |-> 0, ocrProcessed |-> 0, errors |-> 0]]

\* The last operation on the decoder (history).
Op(op, input, pts) == [op |-> op, input |-> input, pts |-> pts]

NoOp == Op("none", "", 0)

(***************************************************************************)
(* Inputs of the demultiplexer: transport packets built field by field in  *)
(* the layout parsePacket, parsePAT, parsePMT and collectPES read.         *)
(***************************************************************************)

Stuffing(n) == [i \in 1..n |-> 255]

\* A packet with adaptation_field_control 3: the adaptation field is stuffed
\* so that the payload ends the packet.
TsPacket(pid, start, payload) ==
    LET afl == 183 - Len(payload)
    IN  <<SyncByte, start * 64 + pid \div 256, pid % 256, 48, afl>>
        \o (IF afl > 0 THEN <<0>> \o Stuffing(afl - 1) ELSE << >>)
        \o payload

\* A packet with adaptation_field_control 1: the payload is followed by
\* 0xFF stuffing up to 184 bytes, as sections are carried in broadcast streams.
TsPacketPadded(pid, start, payload) ==
    <<SyncByte, start * 64 + pid \div 256, pid % 256, 16>>
    \o payload \o Stuffing(184 - Len(payload))

\* A packet with adaptation_field_control 2: adaptation field only, no payload.
TsPacketNoPayload(pid) ==
    <<SyncByte, pid \div 256, pid % 256, 32, 183, 0>> \o Stuffing(182)

RECURSIVE Flatten(_)
Flatten(ss) == IF ss = << >> THEN << >> ELSE Head(ss) \o Flatten(Tail(ss))

PATEntry(e) == <<e.program \div 256, e.program % 256, 224 + e.pid \div 256, e.pid % 256>>

\* pointer_field, the 8 header bytes of a program association section, its
\* program loop and its CRC_32 (crc: the four bytes, computed beforehand with
\* the MPEG-2 polynomial; the source never checks it).
PATSection(programs, crc) ==
    LET loop == Flatten([i \in 1..Len(programs) |-> PATEntry(programs[i])])
    IN  <<0, 0, 176, 9 + Len(loop), 0, 1, 193, 0, 0>> \o loop \o crc

Descriptor(tag, body) == <<tag, Len(body)>> \o body

PMTStream(s) ==
    LET descs == Flatten([i \in 1..Len(s.descs) |-> s.descs[i]])
    IN  <<s.type, 224 + s.pid \div 256, s.pid % 256, 240, Len(descs)>> \o descs

\* pointer_field, the 12 header bytes of a program map section (program 1,
\* PCR on pcr, no program descriptors), its stream loop and its CRC_32.
PMTSection(pcr, streams, crc) ==
    LET loop == Flatten([i \in 1..Len(streams) |-> PMTStream(streams[i])])
    IN  <<0, 2, 176, 13 + Len(loop), 0, 1, 193, 0, 0,
          224 + pcr \div 256, pcr % 256, 240, 0>> \o loop \o crc

\* The five PTS bytes of a PES header for a timestamp v < 2^31.
PTSBytes(v) ==
    <<33 + ((v \div (2 ^ 30)) % 8) * 2, (v \div (2 ^ 22)) % 256,
      ((v \div (2 ^ 15)) % 128) * 2 + 1, (v \div (2 ^ 7)) % 256, (v % 128) * 2 + 1>>

\* A PES packet start: prefix 00 00 01, stream_id 0xBD (private stream 1),
\* PTS flag set, PES_header_data_length 5, the PTS, then the data bytes.
PESStart(v, body) == <<0, 0, 1, 189, 0, 0, 128, 128, 5>> \o PTSBytes(v) \o body

\* The PTS field of a 33-bit time stamp top * 2^30 + low, for top in 0 .. 7
\* (bits 32 .. 30) and low in 0 .. 2^30 - 1.
PTSBytes33(top, low) ==
    <<33 + top * 2, (low \div (2 ^ 22)) % 256,
      ((low \div (2 ^ 15)) % 128) * 2 + 1, (low \div (2 ^ 7)) % 256, (low % 128) * 2 + 1>>

PESStart33(top, low, body) ==
    <<0, 0, 1, 189, 0, 0, 128, 128, 5>> \o PTSBytes33(top, low) \o body

\* A PES packet start with no PTS: flags 0, PES_header_data_length 0.
PESStartNoPTS(body) == <<0, 0, 1, 189, 0, 0, 128, 0, 0>> \o body

\* A packet with adaptation_field_control 3 whose adaptation_field_length
\* runs past the end of the packet; the bytes after it look like a payload.
TsPacketOverrun(pid, start, afl, rest) ==
    <<SyncByte, start * 64 + pid \div 256, pid % 256, 48, afl>>
    \o rest \o Stuffing(183 - Len(rest))

\* The PIDs of the streams fed: the program map, a video stream, two subtitle
\* streams and a teletext stream.
Pids == [pmt |-> 256, video |-> 257, sub |-> 258, sub2 |-> 259, teletext |-> 260]

PmtPid == Pids.pmt

VideoPid == Pids.video

SubPid == Pids.sub

SubPid2 == Pids.sub2

TeletextPid == Pids.teletext

SubtitlingDescriptor == Descriptor(89, <<101, 110, 103, 16, 0, 1, 0, 1>>)

TeletextDescriptor == Descriptor(86, <<101, 110, 103, 9, 0>>)

\* A subtitling descriptor for the hard-of-hearing variant (subtitling type 0x20).
HardOfHearingDescriptor == Descriptor(89, <<101, 110, 103, 32, 0, 1, 0, 1>>)

ProgramsA == <<[program |-> 1, pid |-> PmtPid]>>

ProgramsC == <<[program |-> 1, pid |-> PmtPid], [program |-> 2, pid |-> 512]>>

ProgramsN == <<[program |-> 0, pid |-> 16], [program |-> 1, pid |-> PmtPid]>>

\* A program association that names the subtitle PID as the PID of the
\* program map.
ProgramsS == <<[program |-> 1, pid |-> SubPid]>>

StreamsA ==
    <<[type |-> 2, pid |-> VideoPid, descs |-> << >>],
      [type |-> 6, pid |-> SubPid, descs |-> <<SubtitlingDescriptor>>],
      [type |-> 6, pid |-> TeletextPid, descs |-> <<TeletextDescriptor>>]>>

StreamsB ==
    <<[type |-> 2, pid |-> VideoPid, descs |-> << >>],
      [type |-> 6, pid |-> SubPid, descs |-> <<SubtitlingDescriptor>>],
      [type |-> 6, pid |-> SubPid2, descs |-> <<SubtitlingDescriptor>>]>>

\* A program with no subtitle stream.
StreamsV ==
    <<[type |-> 2, pid |-> VideoPid, descs |-> << >>],
      [type |-> 6, pid |-> TeletextPid, descs |-> <<TeletextDescriptor>>]>>

\* A program whose subtitle stream carries two subtitling descriptors.
StreamsD ==
    <<[type |-> 2, pid |-> VideoPid, descs |-> << >>],
      [type |-> 6, pid |-> SubPid,
       descs |-> <<SubtitlingDescriptor, HardOfHearingDescriptor>>]>>

\* The packets fed to the extractor, by name.
TsLib ==
    [PAT_A |-> TsPacket(0, 1, PATSection(ProgramsA, <<232, 249, 94, 125>>)),
     PAT_B |-> TsPacketPadded(0, 1, PATSection(ProgramsA, <<232, 249, 94, 125>>)),
     PAT_C |-> TsPacket(0, 1, PATSection(ProgramsC, <<57, 137, 165, 169>>)),
     PAT_N |-> TsPacket(0, 1, PATSection(ProgramsN, <<158, 166, 100, 150>>)),
     PMT_A |-> TsPacket(PmtPid, 1, PMTSection(VideoPid, StreamsA, <<107, 158, 212, 181>>)),
     PMT_B |-> TsPacketPadded(PmtPid, 1, PMTSection(VideoPid, StreamsB, <<212, 199, 196, 59>>)),
     PMT_V |-> TsPacket(PmtPid, 1, PMTSection(VideoPid, StreamsV, <<14, 167, 111, 216>>)),
     PMT_D |-> TsPacket(PmtPid, 1, PMTSection(VideoPid, StreamsD, <<61, 62, 32, 219>>)),
     PAT_S |-> TsPacket(0, 1, PATSection(ProgramsS, <<225, 123, 101, 19>>)),
     PMT_S |-> TsPacket(SubPid, 1, PMTSection(VideoPid, StreamsA, <<107, 158, 212, 181>>)),
     S1 |-> TsPacket(SubPid, 1, PESStart(900000, <<32, 0, 15>>)),
     S2 |-> TsPacket(SubPid, 1, PESStart(903600, << >>)),
     SX |-> TsPacket(SubPid, 1, <<0, 0, 2, 189, 0, 0, 128, 128, 0, 33, 0, 1>>),
     K1 |-> TsPacket(SubPid, 0, <<16, 17>>),
     K2 |-> TsPacket(SubPid, 0, <<128>>),
     T1 |-> TsPacket(SubPid2, 1, PESStart(90000, <<32, 0>>)),
     L1 |-> TsPacket(SubPid2, 0, <<7>>),
     V1 |-> TsPacket(VideoPid, 1, <<0, 0, 1, 224, 0, 0, 128, 0, 0, 9>>),
     N1 |-> TsPacketNoPayload(SubPid),
     H0 |-> TsPacket(SubPid, 1, PESStart33(1, 900000, <<32, 0, 15>>)),
     H1 |-> TsPacket(SubPid, 1, PESStart33(2, 900000, <<32, 0, 15>>)),
     H2 |-> TsPacket(SubPid, 1, PESStart33(4, 5, <<32, 0, 15>>)),
     F1 |-> TsPacket(SubPid, 1, PESStartNoPTS(<<32, 0, 15>>)),
     B_PAT |-> TsPacketOverrun(0, 1, 200, PATSection(ProgramsC, <<57, 137, 165, 169>>)),
     B_PMT |-> TsPacketOverrun(PmtPid, 1, 255,
                               PMTSection(VideoPid, StreamsB, <<212, 199, 196, 59>>)),
     B_SUB |-> TsPacketOverrun(SubPid, 1, 184, PESStart(900000, <<32, 0>>)),
     SH_PAT |-> TsPacket(0, 1, <<0, 0, 176, 13, 0>>),
     SH_PMT |-> TsPacket(PmtPid, 1, <<0, 2, 176, 23, 0, 1, 193, 0, 0, 225>>),
     SH_PES |-> TsPacket(SubPid, 1, <<0, 0, 1, 189, 0>>)]

PATNames == {"PAT_A", "PAT_B", "PAT_C", "PAT_N"}

PMTNames == {"PMT_A", "PMT_B"}

\* The PAT that names the subtitle PID as pmtPID and the PMT carried there.
SharedPidNames == {"PAT_S", "PMT_S"}

\* The PMT without subtitle stream and the PMT with two subtitling
\* descriptors on one stream.
PlainPMTNames == {"PMT_V", "PMT_D"}

TsNames ==
    {"PAT_A", "PAT_B", "PAT_C", "PAT_N", "PMT_A", "PMT_B", "S1", "S2", "SX", "K1", "K2",
     "T1", "L1", "V1", "N1"}

\* The packets whose declared fields overrun the bytes there are: an
\* adaptation field past the packet end, a section or a PES start shorter
\* than its fixed header.
Malformed == {"B_PAT", "B_PMT", "B_SUB", "SH_PAT", "SH_PMT", "SH_PES"}

\* PES starts with time stamps of 2^30 and more, and one without PTS.
EdgeNames == {"PAT_A", "PMT_A", "S2", "K1", "H0", "H1", "H2", "F1"} \cup Malformed

\* A chunk is a run of packets, possibly followed by stray bytes.
Chunk(names, tail) == [names |-> names, tail |-> tail]

ChunkBytes(c) == Flatten([i \in 1..Len(c.names) |-> TsLib[c.names[i]]]) \o c.tail

TsChunks ==
    {Chunk(<<n>>, <<255>>) : n \in TsNames}
    \cup {Chunk(<<"PAT_A">>, << >>), Chunk(<<"S1">>, << >>),
          Chunk(<<"PAT_A", "PMT_A">>, << >>), Chunk(<<"PAT_A", "PMT_A">>, <<255>>),
          Chunk(<<"S1", "K1", "S2">>, << >>)}

NoChunk == Chunk(<< >>, << >>)

(***************************************************************************)
(* The demultiplexer as a state machine: ts is the extractor, tsIn the     *)
(* chunk of the last parse() call, psiFed the names of the PAT and PMT     *)
(* packets fed so far.  ts.calls and ts.handed hold the callbacks and the  *)
(* packets of the last parse() call only.                                  *)
(***************************************************************************)

\* A call of one of the pixel functions on its own: its arguments and what
\* it returned (history; the source has no such field).
NoCall ==
    [fn |-> "none", top |-> << >>, bottom |-> << >>, width |-> 0, height |-> 0,
     fieldOffset |-> 0, result |-> << >>]

DecIdle == dec = NewDecoder /\ decOp = NoOp /\ session = "new" /\ call = NoCall

TsInit ==
    /\ ts = NewExtractor /\ tsIn = NoChunk /\ psiFed = << >>
    /\ stream = NoChunk /\ fedPos = 0
    /\ DecIdle

RECURSIVE PSIOf(_)
PSIOf(names) ==
    IF names = << >> THEN << >>
    ELSE (IF Head(names) \in PATNames \cup PMTNames \cup SharedPidNames \cup PlainPMTNames
          THEN <<Head(names)>> ELSE << >>)
         \o PSIOf(Tail(names))

BuffersWithin(x, n) == \A pid \in DOMAIN x.pesBuffers : Len(x.pesBuffers[pid].data) <= n

\* extractor.parse(chunk)
Parse(c) ==
    LET next == parse([ts EXCEPT !.calls = << >>, !.handed = << >>], ChunkBytes(c))
    IN  /\ Len(psiFed) + Len(PSIOf(c.names)) <= MaxPSI
        /\ BuffersWithin(next, MaxUnitLen)
        /\ ts' = next
        /\ tsIn' = c
        /\ psiFed' = psiFed \o PSIOf(c.names)
        /\ UNCHANGED <<stream, fedPos>>
        /\ UNCHANGED <<decVars, call>>

\* extractor.reset()
TsReset ==
    /\ ts' = [ts EXCEPT !.subtitlePIDs = {}, !.pesBuffers = EmptyMap, !.pmtPID = Null,
                        !.calls = << >>, !.handed = << >>, !.units = EmptyMap]
    /\ tsIn' = NoChunk
    /\ psiFed' = << >>
    /\ UNCHANGED <<stream, fedPos>>
    /\ UNCHANGED <<decVars, call>>

TsNext == (\E c \in TsChunks : Parse(c)) \/ TsReset

SpecTS == TsInit /\ [][TsNext]_vars

(***************************************************************************)
(* Claims about the demultiplexer.                                         *)
(***************************************************************************)

PidOf(packet) == (At(packet, 1) % 32) * 256 + At(packet, 2)

StartOf(packet) == (At(packet, 1) \div 64) % 2

HasPayload(packet) == (At(packet, 3) \div 16) % 2 = 1

PESCalls(x) == SelectSeq(x.calls, LAMBDA c : c.kind = "onPES")

\* A payload opens a PES packet: prefix 00 00 01 and more than 9 bytes.
OpensUnit(payload) == Len(payload) >= 10 /\ SubSeq(payload, 1, 3) = <<0, 0, 1>>

RECURSIVE Payloads(_)
Payloads(arrivals) ==
    IF arrivals = << >> THEN << >>
    ELSE Head(arrivals).payload \o Payloads(Tail(arrivals))

\* The bytes of a unit, from the arrivals on its PID since the last packet with
\* the start flag: what follows the PES header of the start packet (nothing
\* when that packet carries no PES header), then every continuation payload.
UnitBytes(arrivals) ==
    IF arrivals = << >> THEN << >>
    ELSE IF Head(arrivals).start = 0 THEN Payloads(arrivals)
    ELSE LET p == Head(arrivals).payload
             after == IF OpensUnit(p) /\ 9 + p[9] < Len(p)
                      THEN SubSeq(p, 10 + p[9], Len(p)) ELSE << >>
         IN  after \o Payloads(Tail(arrivals))

\* C1: every unit delivered through onPES holds the bytes after the PES
\* header of its start packet followed by the whole payloads of the
\* continuation packets of the same PID up to the next start packet, in
\* arrival order, no byte added, dropped or reordered.
C1_PESReassembly ==
    \A i \in 1..Len(ts.calls) :
        ts.calls[i].kind = "onPES" => ts.calls[i].data = UnitBytes(ts.calls[i].src)

\* C1 happens: a unit opened by a start packet with a PES header and data
\* bytes, continued by two packets, was delivered.
C1_Witness ==
    \E i \in 1..Len(ts.calls) :
        /\ ts.calls[i].kind = "onPES"
        /\ Len(ts.calls[i].src) >= 3
        /\ ts.calls[i].src[1].start = 1
        /\ OpensUnit(ts.calls[i].src[1].payload)
        /\ Len(ts.calls[i].data) > Len(Payloads(Tail(ts.calls[i].src)))

\* The step is a parse() call that handed over exactly one packet, a start
\* packet routed to PES reassembly for pid.
StartArrives(pid) ==
    /\ Len(ts'.handed) = 1
    /\ PidOf(ts'.handed[1]) = pid
    /\ StartOf(ts'.handed[1]) = 1
    /\ HasPayload(ts'.handed[1])
    /\ pid # 0 /\ pid # ts.pmtPID /\ pid \in ts.subtitlePIDs

Accumulated(x, pid) ==
    IF pid \in DOMAIN x.pesBuffers THEN x.pesBuffers[pid] ELSE [data |-> << >>, pts |-> 0]

Delivered(c) == [pid |-> c.pid, pts |-> c.pts, data |-> c.data]

\* C2: a start packet on a subtitle PID with a non-empty accumulator delivers
\* that accumulator exactly once, with the pts it had before the new header
\* was read; with an empty accumulator it delivers nothing; and onPES never
\* gets zero-length data.
C2_FlushOnStart ==
    /\ [][\A pid \in {SubPid, SubPid2} :
            StartArrives(pid) =>
                LET old == Accumulated(ts, pid)
                    got == PESCalls(ts')
                IN  IF Len(old.data) > 0
                    THEN /\ Len(got) = 1
                         /\ Delivered(got[1]) =
                                [pid |-> pid, pts |-> old.pts, data |-> old.data]
                    ELSE got = << >>]_vars
    /\ [](\A i \in 1..Len(ts.calls) :
            ts.calls[i].kind = "onPES" => Len(ts.calls[i].data) > 0)

\* C2 happens: one start packet was handed over and flushed a unit whose pts
\* is neither 0 nor the pts of the new header.
C2_Witness ==
    /\ Len(ts.handed) = 1
    /\ StartOf(ts.handed[1]) = 1
    /\ Len(PESCalls(ts)) = 1
    /\ PESCalls(ts)[1].pts # 0
    /\ Accumulated(ts, PidOf(ts.handed[1])).pts # 0
    /\ PESCalls(ts)[1].pts # Accumulated(ts, PidOf(ts.handed[1])).pts

ProgramsOf(name) ==
    CASE name \in {"PAT_A", "PAT_B"} -> ProgramsA
      [] name = "PAT_C" -> ProgramsC
      [] name = "PAT_N" -> ProgramsN

StreamsOf(name) == IF name = "PMT_A" THEN StreamsA ELSE StreamsB

\* The elementary PIDs of a stream loop whose descriptors include tag 0x59.
SubtitlePIDsOf(streams) ==
    {streams[i].pid : i \in {j \in 1..Len(streams) :
        \E d \in 1..Len(streams[j].descs) : streams[j].descs[d][1] = 89}}

\* The PID of the first program-loop entry whose program number is not 0.
FirstProgramPID(programs) ==
    programs[CHOOSE i \in 1..Len(programs) :
                /\ programs[i].program # 0
                /\ \A j \in 1..(i - 1) : programs[j].program = 0].pid

\* C3 as claimed: once a PAT and then the PMT of its program were fed to
\* parse(), the subtitle PID set is exactly the set of elementary PIDs whose
\* descriptor loop holds a descriptor with tag 0x59.
C3_SubtitlePIDsExact ==
    (Len(psiFed) = 2 /\ psiFed[1] \in PATNames /\ psiFed[2] \in PMTNames)
        => ts.subtitlePIDs = SubtitlePIDsOf(StreamsOf(psiFed[2]))

\* C4 as claimed: after parsePAT ran on a PAT section, pmtPID is the PID of
\* its first entry with a non-zero program number.
C4_FirstProgramWins ==
    \A n \in PATNames :
        (ts.handed # << >> /\ ts.handed[Len(ts.handed)] = TsLib[n])
            => ts.pmtPID = FirstProgramPID(ProgramsOf(n))

\* C6 as claimed: parse() on a buffer of N >= 1 whole packets, each starting
\* with 0x47, hands all N packets to parsePacket in order.
C6_AllPacketsHanded ==
    (tsIn.names # << >> /\ tsIn.tail = << >>)
        => ts.handed = [i \in 1..Len(tsIn.names) |-> TsLib[tsIn.names[i]]]

(***************************************************************************)
(* One transport stream fed to parse() piece by piece: stream is the whole *)
(* stream, fedPos the number of its bytes already fed, and ts.calls holds  *)
(* every callback since the first piece.                                   *)
(***************************************************************************)

Streams ==
    {Chunk(n, t) : n \in {<<"PAT_A", "PMT_A", "S1", "K1", "S2">>,
                          <<"PAT_A", "PMT_B", "T1", "L1", "T1">>,
                          <<"PAT_N", "PMT_A", "S1", "S2">>,
                          <<"PAT_A", "PMT_A">>},
                   t \in {<< >>, <<255>>}}

\* The piece sizes a caller may use: single bytes, half a packet, one packet,
\* one packet and a byte, two packets.
PieceSizes == {1, 94, 188, 189, 376}

ChunkInit ==
    /\ stream \in Streams /\ fedPos = 0
    /\ ts = NewExtractor /\ tsIn = NoChunk /\ psiFed = << >>
    /\ DecIdle

\* extractor.parse(the next n bytes of the stream)
FeedPiece(n) ==
    LET bytes == ChunkBytes(stream)
        to == Min(fedPos + n, Len(bytes))
    IN  /\ fedPos < Len(bytes)
        /\ ts' = parse([ts EXCEPT !.handed = << >>], Slice(bytes, fedPos, to))
        /\ fedPos' = to
        /\ UNCHANGED <<tsIn, psiFed, stream>>
        /\ UNCHANGED <<decVars, call>>

\* extractor.parse(all the bytes of the stream not fed yet)
FeedRest ==
    LET bytes == ChunkBytes(stream)
    IN  /\ fedPos < Len(bytes)
        /\ ts' = parse([ts EXCEPT !.handed = << >>], SliceFrom(bytes, fedPos))
        /\ fedPos' = Len(bytes)
        /\ UNCHANGED <<tsIn, psiFed, stream>>
        /\ UNCHANGED <<decVars, call>>

ChunkNext == (\E n \in PieceSizes : FeedPiece(n)) \/ FeedRest

SpecChunk == ChunkInit /\ [][ChunkNext]_vars

Callbacks(x) ==
    [i \in 1..Len(x.calls) |->
        [kind |-> x.calls[i].kind, pid |-> x.calls[i].pid, pts |-> x.calls[i].pts,
         data |-> x.calls[i].data, streams |-> x.calls[i].streams]]

\* C5 as claimed: once the whole stream was fed in pieces, the onPMT and onPES
\* callbacks are those of one parse() call on the whole stream.
C5_ChunkingIndependence ==
    fedPos = Len(ChunkBytes(stream))
        => Callbacks(ts) = Callbacks(parse(NewExtractor, ChunkBytes(stream)))

(***************************************************************************)
(* Inputs of the decoder: PES payloads built segment by segment in the     *)
(* layout decode() and the segment parsers read.                           *)
(***************************************************************************)

Word(n) == <<n \div 256, n % 256>>

\* sync byte, segment type, page id, segment length, segment body.
Segment(type, pageId, body) == <<15, type>> \o Word(pageId) \o Word(Len(body)) \o body

\* Page composition: time-out 5, page state 1, one 6-byte record per region.
PageComposition(pageId, regions) ==
    Segment(16, pageId,
        <<5, 4>> \o Flatten([i \in 1..Len(regions) |->
            <<regions[i].id, 0>> \o Word(regions[i].x) \o Word(regions[i].y)]))

\* Region composition: 8-bit depth, one 6-byte record per (basic bitmap) object.
RegionComposition(pageId, id, width, height, clutId, bgPixel, objects) ==
    Segment(17, pageId,
        <<id, 0>> \o Word(width) \o Word(height) \o <<108, clutId, 0, bgPixel>>
        \o Flatten([i \in 1..Len(objects) |->
            Word(objects[i].id) \o Word(objects[i].x) \o Word(objects[i].y)]))

\* CLUT definition with full-range entries <<id, Y, Cr, Cb, T>>.
CLUTDefinition(pageId, clutId, entries) ==
    Segment(18, pageId,
        <<clutId, 0>> \o Flatten([i \in 1..Len(entries) |->
            <<entries[i][1], 33>> \o SubSeq(entries[i], 2, 5)]))

\* Object data coded as pixels, with its top and bottom field bytes.
ObjectData(pageId, id, top, bottom) ==
    Segment(19, pageId, Word(id) \o <<0>> \o Word(Len(top)) \o Word(Len(bottom))
                        \o top \o bottom)

\* Object data coded as a string of characters (coding method 1).
ObjectText(pageId, id) == Segment(19, pageId, Word(id) \o <<4, 1, 0, 65>>)

EndOfDisplaySet(pageId) == Segment(128, pageId, << >>)

\* data_identifier 0x20 and subtitle_stream_id 0 before the segments.
PESData(segments) == <<32, 0>> \o segments

\* end_of_PES_data_field_marker, which a broadcast PES payload ends with.
EndMarker == <<255>>

Placed(id, x, y) == [id |-> id, x |-> x, y |-> y]

\* The display set of the end-to-end scenario: page 1 places region 1 at
\* (10, 20); region 1 is 40 x 20, CLUT 1, object 5 at (0, 0); CLUT 1 entry 1
\* is Y 235, Cr 128, Cb 128, T 0; object 5 has top field 01 00 and no
\* bottom field.
ScenarioDefinitions ==
    PageComposition(1, <<Placed(1, 10, 20)>>)
    \o RegionComposition(1, 1, 40, 20, 1, 0, <<Placed(5, 0, 0)>>)
    \o CLUTDefinition(1, 1, <<<<1, 235, 128, 128, 0>>>>)
    \o ObjectData(1, 5, <<1, 0>>, << >>)

\* A CLUT id no payload defines.
ClutIds == [scenario |-> 1, undefined |-> 9]

NoClutId == ClutIds.undefined

\* Page 1 places region 2 at (4, 2); region 2 is 6 x 2 with the undefined
\* CLUT and background 0, object 6 at (0, 0); the top field of object 6 is
\* the pixel codes 1, 2, 3, 5, 200.
WideDisplaySet ==
    PageComposition(1, <<Placed(2, 4, 2)>>)
    \o RegionComposition(1, 2, 6, 2, NoClutId, 0, <<Placed(6, 0, 0)>>)
    \o ObjectData(1, 6, <<1, 2, 3, 5, 200>>, << >>)
    \o EndOfDisplaySet(1)

\* Page 1 places region 3 at (0, 0); region 3 is 4 x 2 with the undefined
\* CLUT; the fields of object 7 hold pixel codes above 3 only.
ClearDisplaySet ==
    PageComposition(1, <<Placed(3, 0, 0)>>)
    \o RegionComposition(1, 3, 4, 2, NoClutId, 0, <<Placed(7, 0, 0)>>)
    \o ObjectData(1, 7, <<4, 4>>, <<4>>)
    \o EndOfDisplaySet(1)

\* Page 1 places region 4 at (0, 0); region 4 has width 0, so that
\* createImageData throws when its object 8 is drawn; object 9 comes after
\* the end of display set.
ZeroDisplaySet ==
    PageComposition(1, <<Placed(4, 0, 0)>>)
    \o RegionComposition(1, 4, 0, 2, NoClutId, 0, <<Placed(8, 0, 0)>>)
    \o ObjectData(1, 8, <<1>>, << >>)
    \o EndOfDisplaySet(1)
    \o ObjectData(1, 9, <<1>>, << >>)

\* A segment header that declares excess bytes more than the payload holds
\* after it; the payload ends with the body.
Overlong(type, pageId, body, excess) ==
    <<15, type>> \o Word(pageId) \o Word(Len(body) + excess) \o body

\* What follows the header of an overlong segment: an end of display set for
\* page 1, object 6 and one more byte.
Overrun == EndOfDisplaySet(1) \o ObjectData(1, 6, <<1>>, << >>) \o EndMarker

\* A segment of a type the switch of decode() has no case for; its body is
\* a page composition that places no region on page 1.
Unknown(type) == Segment(type, 1, PageComposition(1, << >>))

\* CLUT 2 with entry 7 full range, Y 235, and the segment ends there: Cr, Cb
\* and T are missing.
TruncatedCLUT == Segment(18, 1, <<2, 0, 7, 33, 235>>)

\* Definitions carried under page id 2 for the ids of the scenario: region 1
\* with object 5 at (0, 0); CLUT 1 twice, with entry 9 only (Y 81, Cr 240,
\* Cb 90) and then with entry 2 only (Y 16); object 5 with top field 02 02.
OtherPageDefinitions ==
    RegionComposition(2, 1, 40, 20, 1, 0, <<Placed(5, 0, 0)>>)
    \o CLUTDefinition(2, 1, <<<<9, 81, 240, 90, 0>>>>)
    \o CLUTDefinition(2, 1, <<<<2, 16, 128, 128, 0>>>>)
    \o ObjectData(2, 5, <<2, 2>>, << >>)

\* The payloads fed to the decoder, by name.
DecLib ==
    [E2E |-> PESData(ScenarioDefinitions \o EndOfDisplaySet(1)),
     E2E_M |-> PESData(ScenarioDefinitions \o EndOfDisplaySet(1)) \o EndMarker,
     EDS |-> PESData(EndOfDisplaySet(1)),
     EDS_M |-> PESData(EndOfDisplaySet(1)) \o EndMarker,
     PAGE0 |-> PESData(PageComposition(1, << >>)) \o EndMarker,
     OBJ_EMPTY |-> PESData(ObjectData(1, 5, << >>, << >>)) \o EndMarker,
     OBJ_TEXT |-> PESData(ObjectText(1, 5)) \o EndMarker,
     WIDE |-> PESData(WideDisplaySet) \o EndMarker,
     CLEAR |-> PESData(ClearDisplaySet) \o EndMarker,
     ZERO |-> PESData(ZeroDisplaySet) \o EndMarker,
     LONG1 |-> PESData(PageComposition(1, <<Placed(1, 10, 20)>>)
                       \o Overlong(19, 1, Overrun, 1)),
     LONG50 |-> PESData(PageComposition(1, <<Placed(1, 10, 20)>>)
                        \o Overlong(17, 1, Overrun, 50)),
     UNK |-> PESData(Unknown(21)) \o EndMarker,
     E2E_U |-> PESData(ScenarioDefinitions \o Unknown(129) \o EndOfDisplaySet(1))
               \o EndMarker,
     U_E2E |-> PESData(Unknown(0) \o ScenarioDefinitions \o EndOfDisplaySet(1))
               \o EndMarker,
     CLUT_T |-> PESData(TruncatedCLUT) \o EndMarker,
     P2_DEFS |-> PESData(OtherPageDefinitions) \o EndMarker]

DecNames == {"E2E", "E2E_M", "EDS", "EDS_M", "PAGE0", "OBJ_EMPTY", "OBJ_TEXT"}

\* The payloads that hold a whole display set, the end marker after it.
RenderNames == {"E2E_M", "WIDE", "CLEAR", "ZERO"}

\* The payloads that hold an end-of-display-set segment and nothing else.
EDSOnly == {"EDS", "EDS_M"}

\* 10 and 12 seconds of the 90 kHz clock.
PtsValues == {10 * ClockRate, 12 * ClockRate}

\* The presentation time stamp of the end-to-end scenario.
ScenarioPts == 10 * ClockRate

\* The trimmed text of a recognition result: empty, or not.
Texts == {"", "text"}

(***************************************************************************)
(* The decoder as a state machine: dec is the decoder, decOp its last      *)
(* operation, session tells whether, since the last reset() or destroy(),  *)
(* only payloads of EDSOnly were decoded ("fresh") or others too ("used"); *)
(* it is "new" until the first reset.                                      *)
(***************************************************************************)

DecInit == DecIdle /\ ts = NewExtractor /\ tsIn = NoChunk /\ psiFed = << >>
           /\ stream = NoChunk /\ fedPos = 0

Called(d) == [d EXCEPT !.events = << >>]

WithinBounds(d) == d.nQueued <= MaxQueued /\ d.stats.errors <= MaxErrors

\* decoder.decode(payload, pts)
Decode(n, pts) ==
    LET next == decode(Called(dec), DecLib[n], pts)
    IN  /\ next.nQueued <= MaxBitmaps /\ next.stats.errors <= MaxErrors
        /\ dec' = next
        /\ decOp' = Op("decode", n, pts)
        /\ session' = IF n \in EDSOnly THEN session
                      ELSE IF session = "new" THEN "new" ELSE "used"
        /\ UNCHANGED <<tsVars, call>>

\* decoder.queueOCR(canvas, pts)
QueueOCR(pts) ==
    LET next == queueOCR(Called(dec), NoPixels, pts)
    IN  /\ WithinBounds(next)
        /\ dec' = next
        /\ decOp' = Op("queueOCR", "", pts)
        /\ UNCHANGED <<session, tsVars, call>>

\* decoder.reset()
Reset ==
    /\ dec' = reset(Called(dec))
    /\ decOp' = Op("reset", "", 0)
    /\ session' = "fresh"
    /\ UNCHANGED <<tsVars, call>>

\* A mutant of initTesseract: a call goes on while another one is loading.
initTesseract_again(d) ==
    IF d.tesseractReady THEN d
    ELSE [d EXCEPT !.tesseractLoading = TRUE, !.inits = @ + 1]

\* initTesseract() up to its await of Tesseract.createWorker, or to its
\* return when the engine is ready or loading.
initTesseract(d) ==
    IF d.tesseractReady \/ d.tesseractLoading THEN d
    ELSE [d EXCEPT !.tesseractLoading = TRUE, !.inits = @ + 1]

\* decoder.initTesseract() where Tesseract is not loaded: the throw is caught.
InitTesseractUnavailable ==
    /\ ~dec.tesseractReady /\ ~dec.tesseractLoading
    /\ dec' = [Called(dec) EXCEPT !.events =
                  <<Event("onError", 0, 0, "Tesseract init failed")>>]
    /\ decOp' = Op("initTesseract", "unavailable", 0)
    /\ UNCHANGED <<session, tsVars, call>>

\* decoder.initTesseract() up to its await of Tesseract.createWorker.
InitTesseract ==
    /\ ~dec.tesseractReady /\ ~dec.tesseractLoading
    /\ dec.nWorkers + dec.inits < MaxWorkers
    /\ dec' = [Called(dec) EXCEPT !.tesseractLoading = TRUE, !.inits = @ + 1]
    /\ decOp' = Op("initTesseract", "", 0)
    /\ UNCHANGED <<session, tsVars, call>>

\* A mutant of CreateWorkerResolves: the queue is not looked at when the
\* engine has become ready.
CreateWorkerResolves_idle ==
    /\ dec.inits > 0
    /\ dec' = [Called(dec) EXCEPT
                  !.inits = @ - 1, !.nWorkers = @ + 1,
                  !.tesseractWorker = dec.nWorkers + 1,
                  !.tesseractReady = TRUE, !.tesseractLoading = FALSE]
    /\ decOp' = Op("createWorker", "resolved", 0)
    /\ UNCHANGED <<session, tsVars, call>>

\* createWorker resolves: the rest of initTesseract().
CreateWorkerResolves ==
    /\ dec.inits > 0
    /\ dec' = processOCRQueue([Called(dec) EXCEPT
                  !.inits = @ - 1, !.nWorkers = @ + 1,
                  !.tesseractWorker = dec.nWorkers + 1,
                  !.tesseractReady = TRUE, !.tesseractLoading = FALSE])
    /\ decOp' = Op("createWorker", "resolved", 0)
    /\ UNCHANGED <<session, tsVars, call>>

\* createWorker rejects: the catch of initTesseract().
CreateWorkerRejects ==
    /\ dec.inits > 0
    /\ dec' = [Called(dec) EXCEPT !.inits = @ - 1, !.tesseractLoading = FALSE,
                  !.events = <<Event("onError", 0, 0, "Tesseract init failed")>>]
    /\ decOp' = Op("createWorker", "rejected", 0)
    /\ UNCHANGED <<session, tsVars, call>>

\* A mutant of RecognizeResolves: the text is not tested for being empty.
RecognizeResolves_blank(r, t) ==
    LET d == [Called(dec) EXCEPT !.recogs = @ \ {r}]
        d1 == [d EXCEPT !.stats.ocrProcessed = @ + 1,
                  !.events = <<Event("onOCRResult", r.pts, r.seq, t),
                               SubtitleEvent(r.pts, r.seq, t)>>,
                  !.ocrLog = @ \o <<[kind |-> "onOCRResult", seq |-> r.seq],
                                    [kind |-> "onSubtitle", seq |-> r.seq]>>]
    IN  /\ r \in dec.recogs
        /\ dec' = DrainLoop(d1)
        /\ decOp' = Op("recognize", IF t = "" THEN "blank" ELSE "text", r.pts)
        /\ UNCHANGED <<session, tsVars, call>>

\* recognize() resolves with trimmed text t: the rest of the loop body of
\* processOCRQueue, then the loop goes on.
RecognizeResolves(r, t) ==
    LET d == [Called(dec) EXCEPT !.recogs = @ \ {r}]
        d1 == IF t # ""
              THEN [d EXCEPT !.stats.ocrProcessed = @ + 1,
                       !.events = <<Event("onOCRResult", r.pts, r.seq, t),
                                    SubtitleEvent(r.pts, r.seq, t)>>,
                       !.ocrLog = @ \o <<[kind |-> "onOCRResult", seq |-> r.seq],
                                         [kind |-> "onSubtitle", seq |-> r.seq]>>]
              ELSE d
    IN  /\ r \in dec.recogs
        /\ dec' = DrainLoop(d1)
        /\ decOp' = Op("recognize", IF t = "" THEN "blank" ELSE "text", r.pts)
        /\ UNCHANGED <<session, tsVars, call>>

\* A mutant of RecognizeRejects: the drain loop ends at the failure.
RecognizeRejects_stop(r) ==
    /\ r \in dec.recogs
    /\ dec.stats.errors < MaxErrors
    /\ dec' = [Called(dec) EXCEPT !.recogs = @ \ {r}, !.stats.errors = @ + 1,
                  !.failed = @ \cup {r.seq}, !.processing = FALSE,
                  !.events = <<Event("onError", r.pts, r.seq, "OCR error")>>]
    /\ decOp' = Op("recognize", "rejected", r.pts)
    /\ UNCHANGED <<session, tsVars, call>>

\* recognize() rejects: the catch in the loop body, then the loop goes on.
RecognizeRejects(r) ==
    LET next == DrainLoop([Called(dec) EXCEPT !.recogs = @ \ {r},
                    !.stats.errors = @ + 1, !.failed = @ \cup {r.seq},
                    !.events = <<Event("onError", r.pts, r.seq, "OCR error")>>])
    IN  /\ r \in dec.recogs
        /\ WithinBounds(next)
        /\ dec' = next
        /\ decOp' = Op("recognize", "rejected", r.pts)
        /\ UNCHANGED <<session, tsVars, call>>

\* decoder.destroy(): with a worker, up to its await of terminate(); with
\* none, to its end.
Destroy ==
    /\ dec' = IF dec.tesseractWorker # Null
              THEN [Called(dec) EXCEPT !.destroys = @ + 1]
              ELSE reset([Called(dec) EXCEPT !.tesseractReady = FALSE])
    /\ dec.destroys = 0
    /\ decOp' = Op("destroy", "", 0)
    /\ session' = IF dec.tesseractWorker # Null THEN session ELSE "fresh"
    /\ UNCHANGED <<tsVars, call>>

\* terminate() resolves: the rest of destroy().
TerminateResolves ==
    /\ dec.destroys > 0
    /\ dec' = reset([Called(dec) EXCEPT !.destroys = @ - 1, !.tesseractWorker = Null,
                        !.tesseractReady = FALSE])
    /\ decOp' = Op("terminate", "resolved", 0)
    /\ session' = "fresh"
    /\ UNCHANGED <<tsVars, call>>

Recognition ==
    \/ InitTesseractUnavailable
    \/ InitTesseract
    \/ CreateWorkerResolves
    \/ CreateWorkerRejects
    \/ \E r \in dec.recogs : \E t \in Texts : RecognizeResolves(r, t)
    \/ \E r \in dec.recogs : RecognizeRejects(r)
    \/ Destroy
    \/ TerminateResolves

Next ==
    \/ \E n \in DecNames : Decode(n, ScenarioPts)
    \/ Reset
    \/ Recognition

Spec == DecInit /\ [][Next]_vars

OCRNext ==
    \/ \E pts \in PtsValues : QueueOCR(pts)
    \/ Reset
    \/ Recognition

SpecOCR == DecInit /\ [][OCRNext]_vars

(***************************************************************************)
(* Claims about the decoder.                                               *)
(***************************************************************************)

Bitmaps(events) == SelectSeq(events, LAMBDA e : e.kind = "onBitmap")

MapsEmpty(d) ==
    /\ d.pages = EmptyMap /\ d.regions = EmptyMap
    /\ d.cluts = EmptyMap /\ d.objects = EmptyMap

\* The payloads of the end-to-end scenario: its segments, the end of display
\* set last, with and without the end marker after them.
Scenario == {"E2E", "E2E_M"}

\* C7 as claimed: one decode() of the scenario's payload at pts 900000 by a
\* decoder whose maps are empty produces exactly one onBitmap event, with
\* time 10.0 and non-zero width and height.
C7_ScenarioOneBitmap ==
    [][(MapsEmpty(dec) /\ decOp'.op = "decode" /\ decOp'.input \in Scenario
        /\ decOp'.pts = ScenarioPts)
       => LET b == Bitmaps(dec'.events)
          IN  /\ Len(b) = 1
              /\ b[1].pts = 10 * ClockRate
              /\ b[1].width > 0 /\ b[1].height > 0]_vars

\* An object of the object map that has no pixel data: not coded as pixels,
\* or coded as pixels with top and bottom fields of length zero.
NoPixelData(o) ==
    \/ o.codingMethod # 0
    \/ Len(o.topFieldData) = 0 /\ Len(o.bottomFieldData) = 0

\* Page pageId is stored and has zero region placements, or every object of
\* its placed regions is missing or has no pixel data.
NothingToShow(d, pageId) ==
    /\ pageId \in DOMAIN d.pages
    /\ \A i \in 1..Len(d.pages[pageId].regions) :
        LET id == d.pages[pageId].regions[i].id
        IN  id \in DOMAIN d.regions =>
                \A j \in 1..Len(d.regions[id].objects) :
                    LET o == d.regions[id].objects[j].id
                    IN  o \in DOMAIN d.objects => NoPixelData(d.objects[o])

\* C8 as claimed: an end of display set that is dispatched for a page with
\* zero region placements, or whose placed regions hold only objects with no
\* pixel data, fires no onBitmap and leaves bitmapsDecoded as it is.
C8_NoPixelsNoBitmap ==
    [][(NothingToShow(dec, 1) /\ decOp'.op = "decode" /\ decOp'.input = "EDS_M")
       => /\ Bitmaps(dec'.events) = << >>
          /\ dec'.stats.bitmapsDecoded = dec.stats.bitmapsDecoded]_vars

\* C9: after reset() the page, region, CLUT and object maps are empty; and a
\* decode() of a payload holding only an end of display set, with nothing
\* but such payloads decoded since the reset, fires no event and enqueues
\* nothing for recognition, whatever was decoded before the reset.
C9_ResetClears ==
    /\ [](decOp.op = "reset" => MapsEmpty(dec))
    /\ [][(session' = "fresh" /\ decOp'.op = "decode" /\ decOp'.input \in EDSOnly)
          => /\ dec'.events = << >>
             /\ dec'.nQueued = dec.nQueued
             /\ dec'.ocrQueue = dec.ocrQueue
             /\ dec'.recogs = dec.recogs]_vars

\* A bitmap was queued before the reset, and an end of display set with the
\* end marker after it, so that it is dispatched, was decoded after the reset.
C9_Witness ==
    /\ session = "fresh" /\ decOp.op = "decode" /\ decOp.input = "EDS_M"
    /\ dec.nQueued > 0

\* C10: recognition events are emitted in the order their bitmaps were
\* enqueued: an onOCRResult or onSubtitle of a bitmap enqueued later never
\* precedes one of a bitmap enqueued earlier.
C10_FIFO ==
    \A i, j \in 1..Len(dec.ocrLog) :
        i < j => dec.ocrLog[i].seq <= dec.ocrLog[j].seq

\* Two bitmaps were enqueued and both were recognized with text.
C10_Witness ==
    \E i, j \in 1..Len(dec.ocrLog) : dec.ocrLog[i].seq < dec.ocrLog[j].seq

(***************************************************************************)
(* Claims about the recognition queue.                                     *)
(***************************************************************************)

RecogSeqs(d) == {r.seq : r \in d.recogs}

LogSeqs(d) == {d.ocrLog[i].seq : i \in 1..Len(d.ocrLog)}

Errors(events) == SelectSeq(events, LAMBDA e : e.kind = "onError")

\* C11: at most one recognize() call is awaited at any time, so no two drain
\* loops of processOCRQueue are under way together.
C11_OneInFlight == Cardinality(dec.recogs) <= 1

\* A recognition is in flight while another bitmap waits in the queue.
C11_Witness == Cardinality(dec.recogs) = 1 /\ Len(dec.ocrQueue) > 0

\* C12: an item that was pending when reset() ran is never recognized and
\* never emitted; and a recognition that resolves with text emits its
\* onOCRResult and onSubtitle, also when reset() ran while it was in flight.
C12_ResetDropsPending ==
    /\ [](dec.dropped \cap (Seqs(dec.ocrQueue) \cup RecogSeqs(dec) \cup LogSeqs(dec)) = {})
    /\ [][\A r \in dec.recogs \ dec'.recogs :
            (decOp'.op = "recognize" /\ decOp'.input = "text")
            => /\ Len(dec'.events) >= 2
               /\ dec'.events[1].kind = "onOCRResult" /\ dec'.events[1].seq = r.seq
               /\ dec'.events[2].kind = "onSubtitle" /\ dec'.events[2].seq = r.seq]_vars

\* A recognition emitted its events after reset() had dropped an item that
\* was queued behind it.
C12_Witness ==
    /\ decOp.op = "recognize" /\ decOp.input = "text"
    /\ Len(dec.events) >= 2 /\ dec.events[1].kind = "onOCRResult"
    /\ \E s \in dec.dropped : dec.events[1].seq < s

\* C13: a failed recognition adds one to the error counter and calls onError
\* once, no onOCRResult or onSubtitle is ever emitted for its bitmap, and the
\* drain loop goes on with the next bitmap of the queue.
C13_FailureSkipped ==
    /\ [](dec.failed \cap LogSeqs(dec) = {})
    /\ [][(decOp'.op = "recognize" /\ decOp'.input = "rejected")
          => LET new == dec'.failed \ dec.failed
                 errs == Errors(dec'.events)
             IN  /\ dec.recogs \ dec'.recogs # {}
                 /\ \A r \in dec.recogs \ dec'.recogs : r.seq \in new
                 /\ dec'.events = errs
                 /\ {errs[i].seq : i \in 1..Len(errs)} = new
                 /\ Len(errs) = Cardinality(new)
                 /\ dec'.stats.errors = dec.stats.errors + Cardinality(new)
                 /\ dec'.ocrLog = dec.ocrLog
                 /\ (dec.tesseractWorker # Null /\ dec.ocrQueue # << >>)
                    => /\ Cardinality(new) = 1
                       /\ RecogSeqs(dec') = {Head(dec.ocrQueue).seq}
                       /\ dec'.ocrQueue = Tail(dec.ocrQueue)]_vars

\* A recognition failed while another bitmap waited behind it, and that
\* bitmap is now being recognized.
C13_Witness ==
    /\ decOp.op = "recognize" /\ decOp.input = "rejected"
    /\ \E s \in dec.failed : \E r \in dec.recogs : s < r.seq

(***************************************************************************)
(* Rendering with the recognition engine unavailable: whole display sets   *)
(* are decoded, initTesseract() never gets a worker.                       *)
(***************************************************************************)

RenderNext ==
    \/ \E n \in RenderNames : Decode(n, ScenarioPts)
    \/ Reset
    \/ InitTesseractUnavailable
    \/ InitTesseract
    \/ CreateWorkerRejects

SpecRender == DecInit /\ [][RenderNext]_vars

\* The error raised by a decode() call.
DecodeErrors(events) ==
    SelectSeq(events, LAMBDA e : e.kind = "onError" /\ e.text = "DVB-SUB decode error")

\* C14: a decode() call that throws adds one to the error counter, calls
\* onError once and returns, with the segments parsed before the exception
\* in the maps and those after it not parsed; and the decode() call after it
\* renders a well-formed display set as ever: one bitmap, no error.
C14_DecodeCatches ==
    /\ [][(decOp'.op = "decode" /\ DecodeErrors(dec'.events) # << >>)
          => /\ Len(dec'.events) = 1
             /\ dec'.stats.errors = dec.stats.errors + 1
             /\ ~dec'.thrown
             /\ 1 \in DOMAIN dec'.pages /\ 4 \in DOMAIN dec'.regions
             /\ 8 \in DOMAIN dec'.objects /\ 9 \notin DOMAIN dec'.objects]_vars
    /\ [][(decOp.op = "decode" /\ DecodeErrors(dec.events) # << >>
           /\ decOp'.op = "decode" /\ decOp'.input \in {"E2E_M", "WIDE"})
          => /\ Len(dec'.events) = 1 /\ Len(Bitmaps(dec'.events)) = 1
             /\ dec'.stats.errors = dec.stats.errors
             /\ dec'.stats.bitmapsDecoded = dec.stats.bitmapsDecoded + 1]_vars

\* A display set was rendered by the decode() call after one that threw.
C14_Witness ==
    /\ decOp.op = "decode" /\ decOp.input = "WIDE"
    /\ dec.stats.errors = 1 /\ dec.stats.bitmapsDecoded = 1
    /\ 8 \in DOMAIN dec.objects

\* C15 as claimed: with the recognition engine unavailable, a rendered bitmap
\* fires onBitmap, no recognition is attempted, and the bitmap is not left in
\* the recognition queue.
C15_NoEngineNoQueue ==
    [][(decOp'.op = "decode" /\ ~dec'.tesseractReady /\ Bitmaps(dec'.events) # << >>)
       => /\ dec'.recogs = {}
          /\ Len(dec'.ocrQueue) <= Len(dec.ocrQueue)]_vars

White == Color(255, 255, 255, 255)

Black == Color(0, 0, 0, 255)

Gray == Color(128, 128, 128, 255)

\* The bitmap of the wide display set under the default table: two rows of
\* white, black, gray; the codes 5 and 200 leave their pixels transparent.
WidePixels ==
    [q \in {0, 1, 2} \X {0, 1} |->
        CASE q[1] = 0 -> White [] q[1] = 1 -> Black [] OTHER -> Gray]

\* C16: a region whose CLUT id has no definition is rendered with the default
\* table: codes 1, 2, 3 are opaque white, black and gray, and every code
\* above 3 is a fully transparent pixel.
C16_DefaultClut ==
    [][(decOp'.op = "decode" /\ decOp'.input = "WIDE"
        /\ NoClutId \notin DOMAIN dec'.cluts)
       => LET b == Bitmaps(dec'.events)
          IN  /\ Len(b) = 1
              /\ b[1].pixels = WidePixels
              /\ b[1].width = 3 /\ b[1].height = 2]_vars

\* The wide display set was rendered.
C16_Witness ==
    /\ decOp.op = "decode" /\ decOp.input = "WIDE"
    /\ Len(Bitmaps(dec.events)) = 1

\* A bitmap whose width and height are those of the bounding box of its
\* pixels with alpha > 0, and whose pixels start at its left and top edge.
Tight(b) ==
    LET xs == {q[1] : q \in DOMAIN b.pixels}
        ys == {q[2] : q \in DOMAIN b.pixels}
    IN  /\ SetMin(xs) = 0 /\ SetMin(ys) = 0
        /\ b.width = SetMax(xs) + 1 /\ b.height = SetMax(ys) + 1

\* C17 as claimed: every emitted bitmap that has a pixel with alpha > 0 is
\* trimmed to the bounding box of those pixels, a single column or row too.
C17_TrimmedToBox ==
    \A i \in 1..Len(dec.events) :
        (dec.events[i].kind = "onBitmap" /\ dec.events[i].pixels # NoPixels)
            => Tight(dec.events[i])

\* C18 as claimed: no onBitmap event is fired for a canvas without a pixel
\* of alpha > 0.
C18_NoPixelNoEvent ==
    \A i \in 1..Len(dec.events) :
        dec.events[i].kind = "onBitmap" => dec.events[i].pixels # NoPixels

(***************************************************************************)
(* The demultiplexer on packets at the edges of the format: time stamps    *)
(* that need more than 31 bits, and malformed packets.                     *)
(***************************************************************************)

EdgeChunks == {Chunk(<<n>>, <<255>>) : n \in EdgeNames}

EdgeNext == (\E c \in EdgeChunks : Parse(c)) \/ TsReset

SpecEdge == TsInit /\ [][EdgeNext]_vars

\* The time stamp a PES header encodes in bytes 9 .. 13, as its bits 32 .. 30
\* and its bits 29 .. 0: 3 + 15 + 15 bits, the marker bits left out.
EncodedPTS(p) ==
    [top |-> (p[10] \div 2) % 8,
     low |-> p[11] * (2 ^ 22) + (p[12] \div 2) * (2 ^ 15) + p[13] * (2 ^ 7) + p[14] \div 2]

HasPTS(p) == (p[8] \div 128) % 2 = 1

\* C19 as claimed: the pts of a unit whose start packet has the PTS flag set
\* is the 33-bit time stamp of its header, never negative; it is 0 when the
\* flag is clear.
C19_PTS33 ==
    \A i \in 1..Len(ts.calls) :
        LET c == ts.calls[i]
        IN  (c.kind = "onPES" /\ c.src # << >> /\ c.src[1].start # 0
             /\ OpensUnit(c.src[1].payload))
            => LET p == c.src[1].payload
               IN  IF HasPTS(p)
                   THEN /\ Len(p) >= 14
                        /\ c.pts >= 0
                        /\ c.pts \div (2 ^ 30) = EncodedPTS(p).top
                        /\ c.pts % (2 ^ 30) = EncodedPTS(p).low
                   ELSE c.pts = 0

\* C20: a malformed packet is handed to parsePacket and worked off without
\* a change of pmtPID or of the subtitle PID set, and without an onPMT call.
C20_MalformedSkipped ==
    [][(Len(tsIn'.names) = 1 /\ tsIn'.names[1] \in Malformed)
       => /\ ts'.handed = <<TsLib[tsIn'.names[1]]>>
          /\ ts'.pmtPID = ts.pmtPID
          /\ ts'.subtitlePIDs = ts.subtitlePIDs
          /\ \A i \in 1..Len(ts'.calls) : ts'.calls[i].kind # "onPMT"]_vars

\* A malformed PAT packet was parsed after pmtPID and the subtitle PIDs had
\* been found.
C20_Witness ==
    /\ tsIn.names \in {<<"B_PAT">>, <<"SH_PAT">>}
    /\ ts.pmtPID = PmtPid /\ ts.subtitlePIDs # {}
    /\ Len(ts.handed) = 1

(***************************************************************************)
(* The pixel functions on their own: decodeField and decodePixelData are   *)
(* called on fields and region sizes drawn at the start, with the default  *)
(* CLUT and its gray entry as background.                                  *)
(***************************************************************************)

\* The bytes of the fields: the row end, two table entries, a code above 3.
FieldBytes == {0, 1, 2, 5}

RECURSIVE SeqsUpTo(_, _)
SeqsUpTo(S, n) ==
    IF n = 0 THEN {<< >>}
    ELSE LET shorter == SeqsUpTo(S, n - 1)
         IN  shorter \cup {Append(q, b) : q \in {r \in shorter : Len(r) = n - 1}, b \in S}

TopFields == SeqsUpTo(FieldBytes \ {2}, MaxFieldLen)

BottomFields == {<< >>, <<2>>, <<0, 2>>, <<2, 0, 2, 2>>}

\* The entries of the default table; gray is the background of the region.
DefaultEntries == [transparent |-> 0, white |-> 1, black |-> 2, gray |-> 3]

BgPixel == DefaultEntries.gray

CallRegion == [width |-> call.width, height |-> call.height, bgPixel |-> BgPixel]

CallBlank == [i \in 0..(call.width * call.height - 1) |-> defaultClut[BgPixel + 1]]

PixelsInit ==
    /\ dec = NewDecoder /\ decOp = NoOp /\ session = "new"
    /\ ts = NewExtractor /\ tsIn = NoChunk /\ psiFed = << >>
    /\ stream = NoChunk /\ fedPos = 0
    /\ call \in {[NoCall EXCEPT !.top = t, !.bottom = b, !.width = w, !.height = h] :
                    t \in TopFields, b \in BottomFields,
                    w \in 1..MaxWidth, h \in 1..MaxHeight}

\* decoder.decodeField(top, pixels, width, height, fieldOffset, depth, clut)
DecodeField(fieldOffset) ==
    /\ call' = [call EXCEPT !.fn = "decodeField", !.fieldOffset = fieldOffset,
                   !.result = decodeField(call.top, CallBlank, call.width, call.height,
                                          fieldOffset, defaultClut)]
    /\ UNCHANGED <<tsVars, decVars>>

\* decoder.decodePixelData(object, region, clut)
DecodePixelData ==
    /\ call' = [call EXCEPT !.fn = "decodePixelData", !.fieldOffset = 0,
                   !.result = decodePixelData([topFieldData |-> call.top,
                                               bottomFieldData |-> call.bottom],
                                              CallRegion, defaultClut)]
    /\ UNCHANGED <<tsVars, decVars>>

PixelsNext == (\E fieldOffset \in {0, 1} : DecodeField(fieldOffset)) \/ DecodePixelData

SpecPixels == PixelsInit /\ [][PixelsNext]_vars

\* The positions (from 1) of the row ends of a field, and its k-th row
\* (from 0): the bytes between the k-th row end and the next.
RowEnds(data) == {i \in 1..Len(data) : data[i] = 0}

RowStart(data, k) ==
    IF k = 0 THEN 1
    ELSE 1 + CHOOSE p \in RowEnds(data) :
                Cardinality({q \in RowEnds(data) : q <= p}) = k

RowLen(data, k) ==
    LET from == RowStart(data, k)
        later == {p \in RowEnds(data) : p >= from}
    IN  (IF later = {} THEN Len(data) + 1 ELSE SetMin(later)) - from

\* The colour a pixel code stands for in the default table.
DefaultColor(code) == IF code <= 3 THEN defaultClut[code + 1] ELSE defaultClut[1]

\* What one field leaves at (x, y) of a buffer that held before there: row
\* y takes the pixels of field row (y - fieldOffset) / 2 when y is a row of
\* the field, as far as that row of the field reaches.
FieldPixel(data, fieldOffset, x, y, before) ==
    LET k == (y - fieldOffset) \div 2
    IN  IF y >= fieldOffset /\ (y - fieldOffset) % 2 = 0
           /\ k <= Cardinality(RowEnds(data)) /\ x < RowLen(data, k)
        THEN DefaultColor(data[RowStart(data, k) + x])
        ELSE before

Cells == (0..(call.width - 1)) \X (0..(call.height - 1))

ResultAt(q) == call.result[q[2] * call.width + q[1]]

\* C25: decodeField writes the pixels of the field's rows at their x and at
\* every second row from fieldOffset, inside the width x height buffer
\* only: the buffer keeps its size, and the rows of the other field and
\* the pixels no code was given for keep what they held.
C25_FieldDecoding ==
    call.fn = "decodeField"
    => /\ DOMAIN call.result = 0..(call.width * call.height - 1)
       /\ \A q \in Cells :
            /\ ResultAt(q) = FieldPixel(call.top, call.fieldOffset, q[1], q[2],
                                        defaultClut[BgPixel + 1])
            /\ q[2] % 2 # call.fieldOffset => ResultAt(q) = defaultClut[BgPixel + 1]

\* The bottom field 01 00 01 was decoded into a buffer of 2 x 4: rows 1 and 3
\* got a white pixel each.
C25_Witness ==
    /\ call.fn = "decodeField" /\ call.fieldOffset = 1
    /\ call.top = <<1, 0, 1>> /\ call.width = 2 /\ call.height = 4
    /\ ResultAt(<<0, 1>>) = defaultClut[2] /\ ResultAt(<<0, 3>>) = defaultClut[2]

\* C26: with an empty bottom field every odd row equals the even row above
\* it; with a bottom field the even rows are those of the top field and the
\* odd rows those of the bottom field.
C26_BottomFieldMirror ==
    call.fn = "decodePixelData"
    => \A q \in Cells :
        IF call.bottom = << >>
        THEN q[2] % 2 = 1 => ResultAt(q) = ResultAt(<<q[1], q[2] - 1>>)
        ELSE ResultAt(q) = FieldPixel(IF q[2] % 2 = 0 THEN call.top ELSE call.bottom,
                                      q[2] % 2, q[1], q[2], defaultClut[BgPixel + 1])

\* A top field with a white pixel was mirrored into row 1.
C26_Witness ==
    /\ call.fn = "decodePixelData" /\ call.bottom = << >> /\ call.height >= 2
    /\ ResultAt(<<0, 0>>) = defaultClut[2] /\ ResultAt(<<0, 1>>) = defaultClut[2]

\* The recognition events among the callbacks of a step.
Recognized(events) ==
    SelectSeq(events, LAMBDA e : e.kind \in {"onOCRResult", "onSubtitle"})

\* C21: a recognition that resolves with text emits one onOCRResult and then
\* one onSubtitle for its item, the onSubtitle from the item's time to five
\* seconds later with source "dvb-ocr"; one that resolves with empty text
\* emits neither, and the error counter moves only by the failures of other
\* items, none while the decoder has its worker.
C21_SubtitleEvent ==
    [][\A r \in dec.recogs \ dec'.recogs :
        /\ (decOp'.op = "recognize" /\ decOp'.input = "text")
           => LET e == Recognized(dec'.events)
              IN  /\ Len(e) = 2
                  /\ e[1].kind = "onOCRResult" /\ e[1].seq = r.seq /\ e[1].pts = r.pts
                  /\ e[1].text # ""
                  /\ e[2].kind = "onSubtitle" /\ e[2].seq = r.seq /\ e[2].text = e[1].text
                  /\ e[2].pts = r.pts
                  /\ e[2].endPts = r.pts + 5 * ClockRate
                  /\ e[2].source = "dvb-ocr"
                  /\ SubSeq(dec'.events, 1, 2) = e
        /\ (decOp'.op = "recognize" /\ decOp'.input = "blank")
           => /\ Recognized(dec'.events) = << >>
              /\ dec'.ocrLog = dec.ocrLog
              /\ dec'.stats.ocrProcessed = dec.stats.ocrProcessed
              /\ dec'.stats.errors =
                    dec.stats.errors + Cardinality(dec'.failed \ dec.failed)
              /\ r.seq \notin dec'.failed
              /\ dec.tesseractWorker # Null => dec'.stats.errors = dec.stats.errors]_vars

\* A recognition resolved with empty text after an earlier one had emitted
\* its events.
C21_Witness ==
    /\ decOp.op = "recognize" /\ decOp.input = "blank"
    /\ Len(dec.ocrLog) >= 2

(***************************************************************************)
(* The segment loop of decode(): payloads with an overlong segment, with   *)
(* segments of unknown type and with a truncated CLUT definition, next to  *)
(* the end-to-end scenario, at either time stamp.                          *)
(***************************************************************************)

\* The payloads whose last segment header declares more than remains.
OverlongNames == {"LONG1", "LONG50"}

\* The end-to-end scenario with a segment of unknown type in it.
UnknownNames == {"E2E_U", "U_E2E"}

SegNames ==
    {"E2E", "E2E_M", "EDS_M", "UNK", "CLUT_T", "P2_DEFS"} \cup OverlongNames \cup UnknownNames

SegNext ==
    \/ \E n \in SegNames, pts \in PtsValues : Decode(n, pts)
    \/ Reset

SpecSeg == DecInit /\ [][SegNext]_vars

\* C22: every bitmap of a decode() call carries the pts argument of that
\* call (its time is pts / 90000, the same argument), whatever pts the page
\* composition was decoded with.
C22_BitmapPts ==
    [][decOp'.op = "decode"
       => \A i \in 1..Len(dec'.events) :
             dec'.events[i].kind = "onBitmap" => dec'.events[i].pts = decOp'.pts]_vars

\* A bitmap of a page whose composition was decoded with another pts.
C22_Witness ==
    /\ decOp.op = "decode"
    /\ Len(Bitmaps(dec.events)) = 1
    /\ 1 \in DOMAIN dec.pages
    /\ dec.pages[1].pts # decOp.pts

\* C23: a decode() call that meets a segment header declaring more bytes
\* than remain stops there: the page composition before it is stored, the
\* overlong segment and the segments in the bytes after its header are not
\* dispatched, no error is counted, no event fires.
C23_OverlongStops ==
    [][(decOp'.op = "decode" /\ decOp'.input \in OverlongNames)
       => /\ dec' = parsePageComposition(Called(dec), 1,
                        <<5, 4, 1, 0, 0, 10, 0, 20>>, decOp'.pts)
          /\ dec'.pages[1].pts = decOp'.pts
          /\ dec'.regions = dec.regions /\ dec'.cluts = dec.cluts
          /\ dec'.objects = dec.objects
          /\ dec'.events = << >>
          /\ dec'.stats = dec.stats]_vars

\* An overlong segment met while region 1 and object 5 are in the maps, so
\* that the end of display set after its header would render.
C23_Witness ==
    /\ decOp.op = "decode" /\ decOp.input \in OverlongNames
    /\ 1 \in DOMAIN dec.regions /\ 5 \in DOMAIN dec.objects

\* C24: a segment of unknown type changes no map and fires no event, and
\* the segments around it are dispatched as if it were absent.
C24_UnknownSkipped ==
    [][/\ (decOp'.op = "decode" /\ decOp'.input = "UNK")
          => dec' = Called(dec)
       /\ (decOp'.op = "decode" /\ decOp'.input \in UnknownNames)
          => /\ dec' = decode(Called(dec), DecLib.E2E_M, decOp'.pts)
             /\ Len(dec'.pages[1].regions) = 1
             /\ Len(Bitmaps(dec'.events)) = 1]_vars

\* The scenario with an unknown segment in it rendered its bitmap, the maps
\* filled before the call.
C24_Witness ==
    /\ decOp.op = "decode" /\ decOp.input \in UnknownNames
    /\ Len(Bitmaps(dec.events)) = 1
    /\ session = "used"

\* The colour components of an entry are integers in 0..255.
InRange(c) == c.r \in 0..255 /\ c.g \in 0..255 /\ c.b \in 0..255 /\ c.a \in 0..255

\* C27 as claimed: every entry of every stored CLUT has r, g, b and a in
\* 0..255, and the full-range entry Y 235, Cr 128, Cb 128, T 0 of the
\* scenario is stored as 235, 235, 235, 255.
C27_ClutInRange ==
    \A id \in DOMAIN dec.cluts :
        /\ \A i \in 1..ClutSize : InRange(dec.cluts[id][i])
        /\ id = ClutIds.scenario => dec.cluts[id][2] = Color(235, 235, 235, 255)

\* Page pageId is stored and every object of its placed regions is missing
\* or has a coding method other than 0.
NotPixelCoded(d, pageId) ==
    /\ pageId \in DOMAIN d.pages
    /\ \A i \in 1..Len(d.pages[pageId].regions) :
        LET id == d.pages[pageId].regions[i].id
        IN  id \in DOMAIN d.regions =>
                \A j \in 1..Len(d.regions[id].objects) :
                    LET o == d.regions[id].objects[j].id
                    IN  o \in DOMAIN d.objects => d.objects[o].codingMethod # 0

\* C28: an object data segment of coding method 1 is stored under its id
\* with no pixel fields and changes nothing else; an end of display set for
\* a page whose objects are all missing or of a coding method other than 0
\* fires no bitmap and leaves bitmapsDecoded as it is.
C28_OtherCodingSkipped ==
    [][/\ (decOp'.op = "decode" /\ decOp'.input = "OBJ_TEXT")
          => /\ dec'.objects = Put(dec.objects, 5,
                    [id |-> 5, codingMethod |-> 1, pixelCoded |-> FALSE,
                     topFieldData |-> << >>, bottomFieldData |-> << >>])
             /\ dec' = [Called(dec) EXCEPT !.objects = dec'.objects]
       /\ (NotPixelCoded(dec, 1) /\ decOp'.op = "decode" /\ decOp'.input = "EDS_M")
          => /\ dec'.events = << >>
             /\ dec'.stats = dec.stats
             /\ dec'.nQueued = dec.nQueued]_vars

\* An end of display set dispatched for the page of the scenario, whose
\* region holds object 5, stored with coding method 1.
C28_Witness ==
    /\ decOp.op = "decode" /\ decOp.input = "EDS_M"
    /\ 1 \in DOMAIN dec.pages /\ Len(dec.pages[1].regions) = 1
    /\ 1 \in DOMAIN dec.regions /\ Len(dec.regions[1].objects) = 1
    /\ 5 \in DOMAIN dec.objects /\ dec.objects[5].codingMethod = 1
    /\ dec.events = << >>

\* The keys of the four maps of d are among those of e.
KeysWithin(d, e) ==
    /\ DOMAIN d.pages \subseteq DOMAIN e.pages
    /\ DOMAIN d.regions \subseteq DOMAIN e.regions
    /\ DOMAIN d.cluts \subseteq DOMAIN e.cluts
    /\ DOMAIN d.objects \subseteq DOMAIN e.objects

\* C30: a step keeps every key of the page, region, CLUT and object maps,
\* unless it is reset() or the end of destroy(), which leave the four maps
\* empty together.
C30_KeysOnlyGrow ==
    [][\/ KeysWithin(dec, dec')
       \/ decOp'.op \in {"reset", "terminate", "destroy"} /\ MapsEmpty(dec')]_vars

\* A decode() call after a render, the four maps holding the scenario again
\* after a reset had emptied them.
C30_Witness ==
    /\ session = "used"
    /\ decOp.op = "decode" /\ decOp.input = "OBJ_TEXT"
    /\ DOMAIN dec.pages = {1} /\ DOMAIN dec.regions = {1}
    /\ DOMAIN dec.cluts = {1} /\ DOMAIN dec.objects = {5}
    /\ dec.stats.bitmapsDecoded = 1

(***************************************************************************)
(* Packet routing: single packets of the PAT, the PMT, the subtitle PIDs,  *)
(* the video PID and a packet without payload, and the PAT and PMT of a    *)
(* stream whose program map is carried on the subtitle PID.                *)
(***************************************************************************)

RouteNames ==
    {"PAT_A", "PMT_A", "PMT_B", "S1", "K1", "S2", "T1", "L1", "V1", "N1"} \cup SharedPidNames

RouteChunks == {Chunk(<<n>>, <<255>>) : n \in RouteNames}

RouteNext == (\E c \in RouteChunks : Parse(c)) \/ TsReset

SpecRoute == TsInit /\ [][RouteNext]_vars

\* The payload of packet goes to collectPES in extractor x.
Routed(x, packet) ==
    /\ HasPayload(packet)
    /\ PidOf(packet) \in x.subtitlePIDs
    /\ PidOf(packet) # 0
    /\ PidOf(packet) # x.pmtPID

\* C29: a packet that has no payload, or whose PID is 0, is pmtPID or is
\* not in the subtitle PID set when it arrives, changes no accumulator and
\* causes no onPES call.
C29_Routing ==
    [][\A n \in RouteNames :
          (tsIn' = Chunk(<<n>>, <<255>>) /\ ~Routed(ts, TsLib[n]))
              => /\ ts'.pesBuffers = ts.pesBuffers
                 /\ ts'.units = ts.units
                 /\ PESCalls(ts') = << >>]_vars

\* A packet without payload on the subtitle PID, or a video packet, arrived
\* while the accumulator of the subtitle PID held bytes.
C29_Witness ==
    /\ tsIn.names \in {<<"N1">>, <<"V1">>}
    /\ SubPid \in ts.subtitlePIDs
    /\ SubPid \in DOMAIN ts.pesBuffers
    /\ Len(ts.pesBuffers[SubPid].data) > 0

(***************************************************************************)
(* The program map: single packets of the PAT, of four PMT sections and of *)
(* the subtitle PID.                                                       *)
(***************************************************************************)

\* The stream loops of the PMT packets.
PMTStreams ==
    [PMT_A |-> StreamsA, PMT_B |-> StreamsB, PMT_V |-> StreamsV, PMT_D |-> StreamsD]

PMTChunks == {Chunk(<<n>>, <<255>>) : n \in {"PAT_A", "S1", "K1", "S2"} \cup DOMAIN PMTStreams}

PMTNext == (\E c \in PMTChunks : Parse(c)) \/ TsReset

SpecPMT == TsInit /\ [][PMTNext]_vars

\* The entries of a stream loop that bear subtitles: stream type 0x06, 0x59
\* or >= 0x90 and a descriptor with tag 0x59; one {pid, type, typeName} each.
SubtitleStreams(streams) ==
    LET bearing == SelectSeq(streams, LAMBDA e :
                       /\ e.type = 6 \/ e.type = 89 \/ e.type >= 144
                       /\ \E d \in 1..Len(e.descs) : e.descs[d][1] = 89)
    IN  [i \in 1..Len(bearing) |->
            [pid |-> bearing[i].pid, type |-> bearing[i].type,
             typeName |-> SUBTITLE_TYPES(bearing[i].type)]]

PMTCalls(x) == SelectSeq(x.calls, LAMBDA c : c.kind = "onPMT")

\* C31 as claimed: a PMT section parsed on pmtPID causes one onPMT call with
\* one entry per subtitle-bearing stream of the section, and no call when
\* it has none.
C31_OnPMTPerStream ==
    [][\A n \in DOMAIN PMTStreams :
          (tsIn' = Chunk(<<n>>, <<255>>) /\ ts.pmtPID = PmtPid)
              => LET streams == SubtitleStreams(PMTStreams[n])
                 IN  PMTCalls(ts') = IF streams = << >> THEN << >>
                                     ELSE <<PMTCall(streams)>>]_vars

\* C32 as claimed: an item leaves the queue for recognition only while the
\* decoder is ready and has its worker; no item is taken, and fails on the
\* missing worker, after destroy() has cleared it.
C32_NoTakeWithoutWorker ==
    [][/\ \A s \in dec'.failed \ dec.failed : \E r \in dec.recogs : r.seq = s
       /\ \A r \in dec'.recogs \ dec.recogs :
             dec'.tesseractReady /\ dec'.tesseractWorker # Null]_vars

\* C33 as claimed: when destroy() has run to its end while initTesseract()
\* awaited the creation of the worker, the completion of the initialisation
\* leaves the decoder without worker and not ready.
C33_DestroyedStaysDown ==
    [][(/\ decOp.op = "destroy" /\ dec.destroys = 0 /\ dec.inits > 0
        /\ decOp'.op = "createWorker")
       => ~dec'.tesseractReady /\ dec'.tesseractWorker = Null]_vars

(***************************************************************************)
(* The recognition queue when every recognize() call settles: a pending    *)
(* call is resolved or rejected in the end, whatever else happens.         *)
(***************************************************************************)

\* A pending recognize() call resolves or rejects.
Settle ==
    \E r \in dec.recogs : (\E t \in Texts : RecognizeResolves(r, t)) \/ RecognizeRejects(r)

SpecSettle == DecInit /\ [][OCRNext]_vars /\ WF_vars(Settle)

\* C34: if the engine is ready again and again, every queued bitmap leaves
\* the queue in the end, taken by the drain loop unless reset() dropped it,
\* and the processing flag is false again and again.
C34_QueueDrains ==
    ([]<>dec.tesseractReady)
        => /\ \A s \in 1..MaxQueued :
                 (s \in Seqs(dec.ocrQueue)) ~> (s \notin Seqs(dec.ocrQueue))
           /\ []<>(~dec.processing)

\* A bitmap queued before the initialisation finished was taken when the
\* worker was created, and a second one waits behind it in the queue.
C34_Witness ==
    /\ decOp.op = "createWorker" /\ decOp.input = "resolved"
    /\ RecogSeqs(dec) = {1}
    /\ dec.processing
    /\ Seqs(dec.ocrQueue) = {2}

\* C35 as claimed: every unit delivered through onPES was opened on its PID
\* by a start packet with a valid PES header and has the pts of that header.
C35_UnitsFromValidStart ==
    \A i \in 1..Len(ts.calls) :
        ts.calls[i].kind = "onPES"
            => /\ ts.calls[i].src # << >>
               /\ LET first == ts.calls[i].src[1]
                  IN  /\ first.start = 1
                      /\ ValidPESHeader(first.payload)
                      /\ ts.calls[i].pts =
                            IF AndNat((At(first.payload, 7) \div 64) % 4, 2) # 0
                            THEN DecodePTS(first.payload) ELSE 0

\* Y 16, Cr 128, Cb 128, T 0.
Dark == Color(16, 16, 16, 255)

\* C36: definitions carried under page id 2 replace the region, CLUT and
\* object of the same ids whatever page they were made under, no page 2
\* comes to be, and an end of display set for page 1 renders them: object 5
\* is the two dark pixels of its new top field, mirrored into the next row.
C36_OneNamespace ==
    [][/\ (decOp'.op = "decode" /\ decOp'.input = "P2_DEFS")
          => /\ dec'.pages = dec.pages
             /\ DOMAIN dec'.regions = DOMAIN dec.regions \cup {1}
             /\ DOMAIN dec'.cluts = DOMAIN dec.cluts \cup {1}
             /\ DOMAIN dec'.objects = DOMAIN dec.objects \cup {5}
             /\ dec'.objects[5].topFieldData = <<2, 2>>
             /\ dec'.cluts[1][3] = Dark
       /\ (/\ decOp'.op = "decode" /\ decOp'.input = "EDS_M"
           /\ decOp.op = "decode" /\ decOp.input = "P2_DEFS"
           /\ 1 \in DOMAIN dec.pages /\ Len(dec.pages[1].regions) = 1)
          => LET b == Bitmaps(dec'.events)
             IN  /\ Len(b) = 1
                 /\ b[1].pixels = [q \in {0, 1} \X {0, 1} |-> Dark]
                 /\ b[1].width = 2 /\ b[1].height = 2]_vars

\* An end of display set for page 1 rendered the dark pixels defined under
\* page id 2, page 1 being the only page.
C36_Witness ==
    /\ decOp.op = "decode" /\ decOp.input = "EDS_M"
    /\ DOMAIN dec.pages = {1}
    /\ 5 \in DOMAIN dec.objects
    /\ dec.objects[5].topFieldData = <<2, 2>>
    /\ Len(Bitmaps(dec.events)) = 1
    /\ Bitmaps(dec.events)[1].pixels = [q \in {0, 1} \X {0, 1} |-> Dark]

\* The CLUT definition segment a payload ends its CLUT definitions with: the
\* id of the table and the entries the segment lists.
LastCLUT ==
    [E2E |-> [id |-> 1, listed |-> {1}], E2E_M |-> [id |-> 1, listed |-> {1}],
     E2E_U |-> [id |-> 1, listed |-> {1}], U_E2E |-> [id |-> 1, listed |-> {1}],
     CLUT_T |-> [id |-> 2, listed |-> {7}], P2_DEFS |-> [id |-> 1, listed |-> {2}]]

\* C37: after a CLUT definition segment for an id, every entry of the table
\* of that id which the segment does not list is the default entry (0 .. 3)
\* or transparent black (4 .. 255), whatever was defined for the id before.
C37_TableReplaced ==
    [][\A n \in DOMAIN LastCLUT :
          (decOp'.op = "decode" /\ decOp'.input = n)
              => \A i \in (0..(ClutSize - 1)) \ LastCLUT[n].listed :
                    dec'.cluts[LastCLUT[n].id][i + 1] =
                        IF i < Len(defaultClut) THEN defaultClut[i + 1]
                        ELSE Color(0, 0, 0, 0)]_vars

\* The second CLUT definition of the payload left entry 9, which the first
\* one had made opaque, transparent, and entry 1, which the scenario may
\* have defined, white.
C37_Witness ==
    /\ decOp.op = "decode" /\ decOp.input = "P2_DEFS"
    /\ 1 \in DOMAIN dec.cluts
    /\ dec.cluts[1][10] = Color(0, 0, 0, 0)
    /\ dec.cluts[1][2] = White
    /\ dec.cluts[1][3] = Dark
    /\ dec.stats.bitmapsDecoded = 1

\* C38: a packet changes the accumulator of no PID but its own and causes
\* no onPES call for another PID.
C38_PidsIndependent ==
    [][\A n \in RouteNames :
          tsIn' = Chunk(<<n>>, <<255>>)
              => \A pid \in (DOMAIN ts.pesBuffers) \ {PidOf(TsLib[n])} :
                    /\ pid \in DOMAIN ts'.pesBuffers
                    /\ ts'.pesBuffers[pid] = ts.pesBuffers[pid]
                    /\ \A i \in 1..Len(ts'.calls) :
                          ts'.calls[i].kind = "onPES" => ts'.calls[i].pid # pid]_vars

\* A start packet on one subtitle PID flushed the unit of that PID while
\* the accumulator of the other one held a continued unit with its pts.
C38_Witness ==
    /\ tsIn.names = <<"S2">>
    /\ Len(PESCalls(ts)) = 1 /\ PESCalls(ts)[1].pid = SubPid
    /\ SubPid2 \in DOMAIN ts.pesBuffers
    /\ ts.pesBuffers[SubPid2].pts # 0
    /\ Len(ts.pesBuffers[SubPid2].data) > 2

(***************************************************************************)
(* initTesseract() called at any time: while a worker is being created,    *)
(* when the engine is ready, after a failure and after destroy().          *)
(***************************************************************************)

\* decoder.initTesseract(), whatever the state of the engine.
CallInitTesseract ==
    /\ dec.nWorkers + dec.inits <= MaxWorkers
    /\ dec' = initTesseract(Called(dec))
    /\ decOp' = Op("initTesseract",
                   IF dec.tesseractReady \/ dec.tesseractLoading THEN "returned"
                   ELSE "started", 0)
    /\ UNCHANGED <<session, tsVars, call>>

InitNext == OCRNext \/ CallInitTesseract

SpecInit == DecInit /\ [][InitNext]_vars

\* C39: at most one createWorker call is awaited at any time; a call of
\* initTesseract() while the engine is loading or ready changes nothing,
\* and a call when it is neither, as after a failed initialisation, starts
\* one creation.
C39_OneInitAtATime ==
    /\ [](dec.inits <= 1 /\ (dec.inits = 1 => dec.tesseractLoading))
    /\ [][decOp'.op = "initTesseract" /\ decOp'.input \in {"returned", "started"}
          => IF dec.tesseractReady \/ dec.tesseractLoading
             THEN dec' = Called(dec)
             ELSE /\ dec'.inits = dec.inits + 1
                  /\ dec'.tesseractLoading
                  /\ dec'.tesseractWorker = dec.tesseractWorker]_vars

\* initTesseract() was called while a createWorker call was awaited.
C39_Witness ==
    /\ decOp.op = "initTesseract" /\ decOp.input = "returned"
    /\ dec.inits = 1 /\ dec.tesseractLoading /\ ~dec.tesseractReady

(***************************************************************************)
(* The loops of decode() and parse(), one iteration a step: call is the    *)
(* loop under way, its input, its offset and, for the descriptor loop      *)
(* inside the stream loop of parsePMT, descOffset and descEnd; y is the    *)
(* row of decodeField.  done tells that the loop condition has failed or   *)
(* the loop was left.                                                      *)
(***************************************************************************)

LoopCall(fn, data, offset, y, height) ==
    [fn |-> fn, data |-> data, offset |-> offset, inner |-> FALSE,
     descOffset |-> 0, descEnd |-> 0, y |-> y, height |-> height, done |-> FALSE]

Leave(c) == [c EXCEPT !.done = TRUE]

\* A mutant of PMTStep: the descriptor loop moves on by the descriptor
\* length only, not by the two bytes of tag and length.
PMTStep_nolength(c) ==
    LET esInfoLength == (At(c.data, c.offset + 3) % 16) * 256 + At(c.data, c.offset + 4)
        streamType == At(c.data, c.offset)
    IN  IF c.inner
        THEN IF c.descOffset < c.descEnd /\ c.descOffset < Len(c.data) - 2
             THEN [c EXCEPT !.descOffset = @ + At(c.data, c.descOffset + 1)]
             ELSE [c EXCEPT !.inner = FALSE, !.offset = @ + 5 + esInfoLength]
        ELSE IF c.offset < Len(c.data) - 5
        THEN IF streamType = 6 \/ streamType = 89 \/ streamType >= 144
             THEN [c EXCEPT !.inner = TRUE, !.descOffset = c.offset + 5,
                            !.descEnd = c.offset + 5 + esInfoLength]
             ELSE [c EXCEPT !.offset = @ + 5 + esInfoLength]
        ELSE Leave(c)

\* decode(): one iteration of the segment scan.
SegmentStep(c) ==
    IF ~(c.offset < Len(c.data) - 6) THEN Leave(c)
    ELSE IF At(c.data, c.offset) # 15 THEN [c EXCEPT !.offset = @ + 1]
    ELSE LET segmentLength == At(c.data, c.offset + 4) * 256 + At(c.data, c.offset + 5)
         IN  IF c.offset + 6 + segmentLength > Len(c.data) THEN Leave(c)
             ELSE [c EXCEPT !.offset = @ + 6 + segmentLength]

\* parse(): one iteration of the packet scan.
PacketStep(c) ==
    IF ~(c.offset < Len(c.data) - PacketSize) THEN Leave(c)
    ELSE IF At(c.data, c.offset) = SyncByte THEN [c EXCEPT !.offset = @ + PacketSize]
    ELSE [c EXCEPT !.offset = @ + 1]

\* parsePageComposition(): one iteration of the region record loop.
PageRegionStep(c) ==
    IF c.offset < Len(c.data) - 5 THEN [c EXCEPT !.offset = @ + 6] ELSE Leave(c)

\* parseRegionComposition(): one iteration of the object record loop.
RegionObjectStep(c) ==
    IF c.offset < Len(c.data) - 5
    THEN LET objectType == (At(c.data, c.offset + 2) \div 64) % 4
         IN  [c EXCEPT !.offset = @ + 6 + (IF objectType \in {1, 2} THEN 2 ELSE 0)]
    ELSE Leave(c)

\* parseCLUTDefinition(): one iteration of the entry loop.
CLUTEntryStep(c) ==
    IF c.offset < Len(c.data)
    THEN LET fullRange == Byte(c.data, c.offset + 1) % 2
         IN  [c EXCEPT !.offset = @ + 2 + (IF fullRange = 1 THEN 4 ELSE 2)]
    ELSE Leave(c)

\* decodeField(): one iteration of the loop over the bytes of the field.
FieldStep(c) ==
    IF c.offset < Len(c.data) /\ c.y < c.height
    THEN [c EXCEPT !.offset = @ + 1,
                   !.y = IF At(c.data, c.offset) = 0 THEN @ + 2 ELSE @]
    ELSE Leave(c)

\* parsePAT(): one iteration of the program loop.
PATStep(c) ==
    IF c.offset < Len(c.data) - 4 THEN [c EXCEPT !.offset = @ + 4] ELSE Leave(c)

\* parsePMT(): one iteration of the descriptor loop when inside it, else the
\* head of an iteration of the stream loop, which enters the descriptor loop
\* or moves to the next stream; the iteration of the stream loop ends when
\* the descriptor loop does.
PMTStep(c) ==
    LET esInfoLength == (At(c.data, c.offset + 3) % 16) * 256 + At(c.data, c.offset + 4)
        streamType == At(c.data, c.offset)
    IN  IF c.inner
        THEN IF c.descOffset < c.descEnd /\ c.descOffset < Len(c.data) - 2
             THEN [c EXCEPT !.descOffset = @ + 2 + At(c.data, c.descOffset + 1)]
             ELSE [c EXCEPT !.inner = FALSE, !.offset = @ + 5 + esInfoLength]
        ELSE IF c.offset < Len(c.data) - 5
        THEN IF streamType = 6 \/ streamType = 89 \/ streamType >= 144
             THEN [c EXCEPT !.inner = TRUE, !.descOffset = c.offset + 5,
                            !.descEnd = c.offset + 5 + esInfoLength]
             ELSE [c EXCEPT !.offset = @ + 5 + esInfoLength]
        ELSE Leave(c)

LoopStep(c) ==
    CASE c.fn = "decode" -> SegmentStep(c)
      [] c.fn = "parse" -> PacketStep(c)
      [] c.fn = "parsePageComposition" -> PageRegionStep(c)
      [] c.fn = "parseRegionComposition" -> RegionObjectStep(c)
      [] c.fn = "parseCLUTDefinition" -> CLUTEntryStep(c)
      [] c.fn = "decodeField" -> FieldStep(c)
      [] c.fn = "parsePAT" -> PATStep(c)
      [] c.fn = "parsePMT" -> PMTStep(c)

\* The body of a segment.
Body(segment) == SliceFrom(segment, 6)

\* Segments of length zero, of known and of unknown type, and bytes that
\* hold no sync byte.
ZeroSegments ==
    PESData(Segment(16, 1, << >>) \o Segment(128, 1, << >>) \o Segment(21, 1, << >>))
    \o EndMarker

\* A program whose subtitle stream carries descriptors of length zero, and
\* a stream with an empty descriptor loop.
StreamsZ ==
    <<[type |-> 6, pid |-> SubPid, descs |-> <<Descriptor(89, << >>), Descriptor(10, << >>)>>],
      [type |-> 6, pid |-> SubPid2, descs |-> << >>],
      [type |-> 2, pid |-> VideoPid, descs |-> << >>]>>

\* A region composition body with a character object (object type 1, two
\* more bytes) and a bitmap object, cut after four more bytes.
CharRegionBody ==
    Body(RegionComposition(1, 1, 40, 20, 1, 0, << >>))
    \o <<0, 5, 64, 0, 0, 0, 1, 2>> \o <<0, 6, 0, 0, 0, 0>> \o <<0, 7, 0, 0>>

DecodeInputs ==
    {DecLib.E2E_M, DecLib.LONG1, DecLib.E2E_U, ZeroSegments, <<1, 2, 3, 4, 5, 6, 7, 8, 9>>}

PMTInputs ==
    {PMTSection(VideoPid, StreamsB, <<212, 199, 196, 59>>),
     PMTSection(VideoPid, StreamsZ, <<0, 0, 0, 0>>),
     PMTSection(VideoPid, StreamsZ, <<0, 0, 0, 0>>) \o Stuffing(12)}

PATInputs ==
    {PATSection(ProgramsC, <<57, 137, 165, 169>>),
     PATSection(ProgramsA, <<232, 249, 94, 125>>) \o Stuffing(9)}

FieldInputs == {<<1, 0, 2, 0, 0, 3>>, <<0, 0, 0>>, <<1, 2, 3>>}

\* The loops with the offset the function enters them at.
LoopCalls ==
    {LoopCall("decode", data, IF At(data, 0) \in {32, 0} THEN 2 ELSE 0, 0, 0) :
        data \in DecodeInputs}
    \cup {LoopCall("parse", data, 0, 0, 0) :
            data \in {ChunkBytes(Chunk(<<"S1", "K1">>, <<255>>)), Stuffing(PacketSize + 9)}}
    \cup {LoopCall("parsePageComposition", data, 2, 0, 0) :
            data \in {Body(PageComposition(1, <<Placed(1, 10, 20), Placed(2, 0, 0)>>)),
                      <<5, 4, 1, 0, 0>>}}
    \cup {LoopCall("parseRegionComposition", data, 10, 0, 0) :
            data \in {CharRegionBody,
                      Body(RegionComposition(1, 1, 40, 20, 1, 0, <<Placed(5, 0, 0)>>))}}
    \cup {LoopCall("parseCLUTDefinition", data, 2, 0, 0) :
            data \in {Body(TruncatedCLUT), <<2, 0, 7, 0, 1, 2, 8>>,
                      Body(CLUTDefinition(1, 1, <<<<1, 235, 128, 128, 0>>>>))}}
    \cup {LoopCall("decodeField", data, 0, y, h) :
            data \in FieldInputs, y \in {0, 1}, h \in 1..MaxHeight}
    \cup {LoopCall("parsePAT", data, At(data, 0) + 1 + 8, 0, 0) : data \in PATInputs}
    \cup {LoopCall("parsePMT", data,
                   At(data, 0) + 1 + 12 + (At(data, 11) % 16) * 256 + At(data, 12), 0, 0) :
            data \in PMTInputs}

LoopInit ==
    /\ dec = NewDecoder /\ decOp = NoOp /\ session = "new"
    /\ ts = NewExtractor /\ tsIn = NoChunk /\ psiFed = << >>
    /\ stream = NoChunk /\ fedPos = 0
    /\ call \in LoopCalls

\* One iteration of the loop under way.
Iterate ==
    /\ ~call.done
    /\ call' = LoopStep(call)
    /\ UNCHANGED <<tsVars, decVars>>

SpecLoops == LoopInit /\ [][Iterate]_vars /\ WF_vars(Iterate)

\* C40: every iteration of a loop moves its offset up or leaves the loop
\* (in parsePMT: moves the descriptor offset up, or enters the descriptor
\* loop, which only an iteration that moves the stream offset up ends), no
\* offset ever moves down, and every loop ends.
C40_LoopsTerminate ==
    /\ [][\/ call'.done
          \/ call'.offset > call.offset /\ ~call'.inner
          \/ /\ call'.offset = call.offset /\ call'.inner
             /\ IF call.inner THEN call'.descOffset > call.descOffset
                ELSE call'.descOffset > call.offset]_vars
    /\ <>call.done

\* The stream loop of parsePMT ended on a section whose descriptors have
\* length zero, past its descriptor loops.
C40_Witness ==
    /\ call.done /\ call.fn = "parsePMT"
    /\ call.data = PMTSection(VideoPid, StreamsZ, <<0, 0, 0, 0>>)
    /\ call.descEnd > 0
    /\ call.offset > call.descEnd

====
